---------------------------- MODULE Spec2Model ----------------------------
(***************************************************************************)
(* Model of tag-finder (src/tag-finder.go): the registry client (token     *)
(* cache, tag listing, manifest digest fetch), the FetchDigests worker     *)
(* pool and the Bubble Tea model that consumes its result stream.          *)
(*                                                                         *)
(* Text is modelled as a sequence of symbols.  A symbol is a TLA+ string   *)
(* that stands for a fixed piece of text holding none of the characters    *)
(* the code splits, trims or searches on; each such character (space,      *)
(* comma, '=', '"', ';', '<', '>', '/') is a symbol of its own.  The empty *)
(* Go string is the empty sequence.                                        *)
(***************************************************************************)
EXTENDS Integers, Sequences, FiniteSets, TLC

\* ------------------------------------------------------------------ bounds

\* rc.workers: the number of worker goroutines of the pool
NumWorkers == 2
\* the longest tag list a registry serves in one run
MaxTags == 3

\* tags in a repository when a property of whole behaviours is checked
MaxLiveTags == 2
\* the pages an endless registry is followed through
MaxLoopPages == 4
\* tags in a repository when the program is run with -workers 1
MaxOneWorkerTags == 4
\* the most pages fetchTagsList is followed through before the model stops
\* the registry from naming a further page
MaxPages == 2
\* capacity of the result channel FetchDigests is handed when it is called
\* directly (the Bubble Tea model makes it with workers*2)
PoolCap == 1

\* ------------------------------------------------------------- text helpers

Empty == <<>>

\* A Go error value.  Every caller only tests err != nil (View prints the
\* text), so the model keeps whether an error is nil and not its message.
Nil == "nil"
Error == "error"

\* a + b on Go strings
Cat(a, b) == a \o b

\* one-symbol text
Sym(c) == <<c>>

RECURSIVE IndexFrom(_, _, _)
\* strings.Index(s, sub), counted from position i (1-based); 0 when absent
IndexFrom(s, sub, i) ==
    IF i + Len(sub) - 1 > Len(s) THEN 0
    ELSE IF SubSeq(s, i, i + Len(sub) - 1) = sub THEN i
    ELSE IndexFrom(s, sub, i + 1)

\* strings.Index(s, sub) as a 1-based position, 0 when sub does not occur
Index(s, sub) == IndexFrom(s, sub, 1)

\* strings.Contains(s, sub)
Contains(s, sub) == Index(s, sub) > 0

\* strings.HasPrefix(s, p)
HasPrefix(s, p) == Len(s) >= Len(p) /\ SubSeq(s, 1, Len(p)) = p

\* strings.HasSuffix(s, p)
HasSuffix(s, p) == Len(s) >= Len(p) /\ SubSeq(s, Len(s) - Len(p) + 1, Len(s)) = p

\* strings.TrimPrefix(s, p)
TrimPrefix(s, p) == IF HasPrefix(s, p) THEN SubSeq(s, Len(p) + 1, Len(s)) ELSE s

RECURSIVE TrimLeft(_, _)
\* strings.TrimLeft(s, cutset): drop leading symbols that are in cutset
TrimLeft(s, cutset) ==
    IF s # Empty /\ Head(s) \in cutset THEN TrimLeft(Tail(s), cutset) ELSE s

RECURSIVE TrimRight(_, _)
\* strings.TrimRight(s, cutset): drop trailing symbols that are in cutset
TrimRight(s, cutset) ==
    IF s # Empty /\ s[Len(s)] \in cutset
    THEN TrimRight(SubSeq(s, 1, Len(s) - 1), cutset) ELSE s

\* strings.Trim(s, cutset)
Trim(s, cutset) == TrimRight(TrimLeft(s, cutset), cutset)

\* strings.TrimSpace(s)
TrimSpace(s) == Trim(s, {" "})

RECURSIVE Split(_, _)
\* strings.Split(s, sep) for a one-character separator: every piece between
\* separators, empty pieces kept; a text without sep is its own single piece
Split(s, sep) ==
    LET i == Index(s, Sym(sep))
    IN  IF i = 0 THEN <<s>>
        ELSE <<SubSeq(s, 1, i - 1)>> \o Split(SubSeq(s, i + 1, Len(s)), sep)

\* strings.SplitN(s, sep, 2): cut at the first separator only
SplitN2(s, sep) ==
    LET i == Index(s, Sym(sep))
    IN  IF i = 0 THEN <<s>>
        ELSE <<SubSeq(s, 1, i - 1), SubSeq(s, i + 1, Len(s))>>

\* ------------------------------------------------------- parseImageReference

DockerHubURL == <<"https:", "/", "/", "registry-1.docker.io">>

\* a parseImageReference that puts every docker.io repository under library/
parseImageReferenceAlwaysLibrary(image) ==
    LET parts == SplitN2(image, "/")
    IN  IF Len(parts) = 1
        THEN [registryURL |-> DockerHubURL,
              repository  |-> Cat(<<"library", "/">>, parts[1]),
              err         |-> Nil]
        ELSE LET registry == parts[1]
                 repo     == parts[2]
             IN  IF registry = <<"docker.io">>
                 THEN [registryURL |-> DockerHubURL,
                       repository  |-> Cat(<<"library", "/">>, repo),
                       err         |-> Nil]
                 ELSE IF registry = <<"ghcr.io">>
                 THEN [registryURL |-> <<"https:", "/", "/", "ghcr.io">>,
                       repository  |-> repo, err |-> Nil]
                 ELSE IF registry = <<"quay.io">>
                 THEN [registryURL |-> <<"https:", "/", "/", "quay.io">>,
                       repository  |-> repo, err |-> Nil]
                 ELSE [registryURL |-> Cat(<<"https:", "/", "/">>, registry),
                       repository  |-> repo, err |-> Nil]

\* parseImageReference(image): [registryURL, repository, err]
parseImageReference(image) ==
    LET parts == SplitN2(image, "/")
    IN  IF Len(parts) = 1
        THEN [registryURL |-> DockerHubURL,
              repository  |-> Cat(<<"library", "/">>, parts[1]),
              err         |-> Nil]
        ELSE LET registry == parts[1]
                 repo     == parts[2]
             IN  IF registry = <<"docker.io">>
                 THEN [registryURL |-> DockerHubURL,
                       repository  |-> IF ~Contains(repo, Sym("/"))
                                       THEN Cat(<<"library", "/">>, repo)
                                       ELSE repo,
                       err         |-> Nil]
                 ELSE IF registry = <<"ghcr.io">>
                 THEN [registryURL |-> <<"https:", "/", "/", "ghcr.io">>,
                       repository  |-> repo, err |-> Nil]
                 ELSE IF registry = <<"quay.io">>
                 THEN [registryURL |-> <<"https:", "/", "/", "quay.io">>,
                       repository  |-> repo, err |-> Nil]
                 ELSE [registryURL |-> Cat(<<"https:", "/", "/">>, registry),
                       repository  |-> repo, err |-> Nil]

\* ------------------------------------------------------------ parseLinkHeader

RelNext == <<"rel", "=", "\"", "next", "\"">>

\* parseLinkHeader(linkHeader): the target of a rel="next" link, or empty
parseLinkHeader(linkHeader) ==
    LET parts   == Split(linkHeader, ";")
        urlPart == TrimSpace(parts[1])
    IN  IF Len(parts) < 2 THEN Empty
        ELSE IF ~HasPrefix(urlPart, Sym("<")) \/ ~HasSuffix(urlPart, Sym(">"))
        THEN Empty
        ELSE IF \E k \in 2..Len(parts) : Contains(parts[k], RelNext)
        THEN Trim(urlPart, {"<", ">"})
        ELSE Empty

\* ------------------------------------------------- WWW-Authenticate challenge

RECURSIVE ParamsOf(_, _)
\* the params map getBearerToken builds from the comma-separated pieces, in
\* order, a later key overwriting an earlier one; a set of <<key, value>>
ParamsOf(pieces, acc) ==
    IF pieces = <<>> THEN acc
    ELSE LET kv == SplitN2(Head(pieces), "=")
         IN  IF Len(kv) = 2
             THEN ParamsOf(Tail(pieces),
                           {p \in acc : p[1] # kv[1]}
                               \cup {<<kv[1], Trim(kv[2], {"\""})>>})
             ELSE ParamsOf(Tail(pieces), acc)

HasParam(params, key) == \E p \in params : p[1] = key

Param(params, key) == (CHOOSE p \in params : p[1] = key)[2]

\* The part of getBearerToken between the cache check and the token request:
\* [err, tokenURL]
ParseChallenge(authHeader, repository) ==
    LET parts == Split(authHeader, " ")
    IN  IF Len(parts) < 2 \/ parts[1] # <<"Bearer">>
        THEN [err |-> Error, tokenURL |-> Empty]
        ELSE LET params == ParamsOf(Split(parts[2], ","), {})
             IN  IF ~HasParam(params, <<"realm">>)
                 THEN [err |-> Error, tokenURL |-> Empty]
                 ELSE [err |-> Nil,
                       tokenURL |->
                         Cat(Cat(Cat(Param(params, <<"realm">>), <<"?">>),
                                 IF HasParam(params, <<"service">>)
                                 THEN Cat(Cat(<<"service", "=">>,
                                              Param(params, <<"service">>)), <<"&">>)
                                 ELSE Empty),
                             IF HasParam(params, <<"scope">>)
                             THEN Cat(<<"scope", "=">>, Param(params, <<"scope">>))
                             ELSE Cat(Cat(<<"scope", "=", "repository:">>, repository),
                                      <<":pull">>))]

\* ------------------------------------------------------------ program inputs

\* tag names a registry may list (a tag is never split or searched, so each
\* is one symbol)
TagNames == {"t1", "t2"}

DigestA == <<"sha256:", "aaaa">>
DigestB == <<"sha256:", "bbbb">>

\* command-line digest arguments: with and without the sha256: prefix
DigestArgs == {DigestA, <<"aaaa">>}

\* command-line image arguments
Images == {<<"ghcr.io", "/", "owner", "/", "repo">>}

\* a normalization that prefixes every digest argument
NormalizeDigestAlways(digest) == Cat(<<"sha256:">>, digest)

\* main: "Ensure digest has sha256: prefix"
NormalizeDigest(digest) ==
    IF ~HasPrefix(digest, <<"sha256:">>) THEN Cat(<<"sha256:">>, digest) ELSE digest

\* main: "Strip docker:// prefix if provided"
StripScheme(image) == TrimPrefix(image, <<"docker:", "/", "/">>)

\* tokens a token endpoint may hand out
TokA == <<"tokA">>
TokB == <<"tokB">>

\* WWW-Authenticate challenges a registry may send with a 401
ChalFull ==
    <<"Bearer", " ", "realm", "=", "\"", "https:", "/", "/", "auth.example", "\"", ",",
      "service", "=", "\"", "registry", "\"", ",",
      "scope", "=", "\"", "repository:", "owner", "/", "repo", ":pull", "\"">>
ChalNoScope ==
    <<"Bearer", " ", "realm", "=", "\"", "https:", "/", "/", "auth.example", "\"">>
ChalNoRealm == <<"Bearer", " ", "service", "=", "\"", "registry", "\"">>
ChalBasic ==
    <<"Basic", " ", "realm", "=", "\"", "https:", "/", "/", "auth.example", "\"">>

\* the arguments of the direct calls of the tests: the URL of the test server
\* and the repository name
TestRegistry == <<"http:", "/", "/", "127.0.0.1">>
TestRepository == <<"repo">>

\* the Www-Authenticate values and the repositories getBearerToken can be
\* called with
Challenges == {Empty, ChalFull, ChalNoScope, ChalNoRealm, ChalBasic}
Repositories ==
    {TestRepository} \cup {parseImageReference(StripScheme(i)).repository : i \in Images}

\* ParseChallenge, worked out once for each of them
ChallengeOf ==
    [h \in Challenges |-> [repo \in Repositories |-> ParseChallenge(h, repo)]]

\* Link headers a registry may send with a tag page
LinkNext ==
    <<"<", "/", "v2", "/", "owner", "/", "repo", "/", "tags", "/",
      "list?n=1000&last=x", ">", ";", " ", "rel", "=", "\"", "next", "\"">>
LinkPrev ==
    <<"<", "/", "v2", "/", "owner", "/", "repo", "/", "tags", "/",
      "list?n=1000", ">", ";", " ", "rel", "=", "\"", "prev", "\"">>

\* Tags are opaque names, so a tag list is taken up to renaming: the first
\* tag a registry lists is "t1"
Canonical(tags) == tags = <<>> \/ tags[1] = "t1"

\* the tag lists of length at most n that may follow the tags `before`
TagListsAfter(before, n) ==
    {ts \in UNION {[1..k -> TagNames] : k \in 0..n} : Canonical(before \o ts)}

\* the tag lists of length at most n
TagLists(n) == TagListsAfter(<<>>, n)

\* ------------------------------------------------------------ HTTP responses

\* A registry response as the code reads it: the status (0 stands for a
\* transport error, i.e. httpClient.Do returning err), the
\* Docker-Content-Digest, WWW-Authenticate and Link headers (empty when
\* absent), and the JSON body: whether it decodes, and its "tags" array.
Response(status, digest, wwwAuth, link, bodyOK, tags) ==
    [status |-> status, digest |-> digest, wwwAuth |-> wwwAuth, link |-> link,
     bodyOK |-> bodyOK, tags |-> tags]

NoResponse == Response(-1, Empty, Empty, Empty, FALSE, <<>>)

\* what a registry may answer to a manifest request
ManifestResponses ==
    {Response(0, Empty, Empty, Empty, FALSE, <<>>)}
    \cup {Response(200, d, Empty, Empty, FALSE, <<>>) : d \in {DigestA, DigestB, Empty}}
    \cup {Response(404, DigestA, Empty, Empty, FALSE, <<>>)}
    \cup {Response(401, Empty, c, Empty, FALSE, <<>>) : c \in {Empty, ChalFull, ChalBasic}}

\* what a registry may answer to a tag page request after the tags `before`,
\* when `more` tells whether it may name a further page and the repository
\* holds at most `limit` tags
PageResponses(before, more, limit) ==
    {Response(0, Empty, Empty, Empty, FALSE, <<>>),
     Response(500, Empty, Empty, Empty, FALSE, <<>>),
     Response(200, Empty, Empty, Empty, FALSE, <<>>)}
    \cup {Response(200, Empty, Empty, l, TRUE, ts) :
            l \in {Empty, LinkPrev} \cup (IF more THEN {LinkNext} ELSE {}),
            ts \in TagListsAfter(before, limit - Len(before))}
    \cup {Response(401, Empty, c, Empty, FALSE, <<>>) :
            c \in {Empty, ChalFull, ChalNoScope, ChalNoRealm}}

\* A token endpoint response: status (0: transport error) and the JSON body:
\* whether it decodes, and its "token" and "access_token" fields (empty when
\* absent, which is what decoding into the Go struct yields)
TokenResponse(status, bodyOK, tok, access) ==
    [status |-> status, bodyOK |-> bodyOK, token |-> tok, access_token |-> access]

TokenResponses ==
    {TokenResponse(0, FALSE, Empty, Empty),
     TokenResponse(500, FALSE, Empty, Empty),
     TokenResponse(200, FALSE, Empty, Empty),
     TokenResponse(200, TRUE, Empty, Empty),
     TokenResponse(200, TRUE, TokA, Empty),
     TokenResponse(200, TRUE, Empty, TokB),
     TokenResponse(200, TRUE, TokA, TokB)}

\* --------------------------------------------------------------------- state

VARIABLES
    token,          \* rc.token of each RegistryClient
    tokenMutex,     \* rc.tokenMutex of each client: the goroutine holding it
    pc,             \* where each goroutine that uses a client stands
    loc,            \* the locals of each such goroutine
    fd,             \* the goroutine running FetchDigests and its arguments
    closer,         \* the goroutine "wg.Wait(); close(resultsChan)"
    wg,             \* the sync.WaitGroup counter
    jobs,           \* buffer of the jobs channel
    jobsClosed,     \* close(jobs) was called
    resultsChan,    \* buffer of the result channel
    resultsClosed,  \* close(resultsChan) was called
    resultsCap,     \* capacity the result channel was made with
    ctxDone,        \* the context was cancelled
    m,              \* the Bubble Tea model
    cmd,            \* the tea.Cmd that will produce the next message
    msg,            \* the message waiting for Update
    quit,           \* Update returned tea.Quit
    processed,      \* results the test's collector has received
    testDone,       \* the test's collector saw the stream closed
    sentCount,      \* history: results sent on the stream, per tag
    expected,       \* history: tags sent after a final 200 response whose
                    \* digest header is the target digest, in sending order
    panicked,       \* history: a send on, or a close of, a closed channel
    unpulledAtCancel, \* history: cancel was called with a tag not yet pulled
    after,          \* history: results each worker sent after the cancel
    authed,         \* history: token of the first 401 -> token -> 200 call
    tagLimit,       \* the registry: how many tags the repository holds at most
    call,           \* a direct call of a parsing function: argument and result
    exitStatus,     \* <<code>> once the process has exited, <<>> while it runs
    endless,        \* the registry: every tag page it serves names a next page
    tokenGets       \* history, kept when switched on: the token requests issued
                    \* and whether one of them was answered without a token

vars ==
    <<token, tokenMutex, pc, loc, fd, closer, wg, jobs, jobsClosed, resultsChan,
      resultsClosed, resultsCap, ctxDone, m, cmd, msg, quit, processed, testDone,
      sentCount, expected, panicked, unpulledAtCancel, after, authed, tagLimit,
      call, exitStatus, tokenGets, endless>>

clientVars == <<token, tokenMutex>>
poolVars == <<fd, closer, wg, jobs, jobsClosed, resultsChan, resultsClosed>>
uiVars == <<m, cmd, msg, quit>>
testVars == <<processed, testDone>>
histVars == <<sentCount, expected, panicked, unpulledAtCancel, after, authed>>

\* the goroutine of the fetchTags command, and the workers of FetchDigests
ListThread == 0
Workers == 1..NumWorkers
Threads == {ListThread} \cup Workers

\* fetchTags and startWorkerPool each make their own client
ListClient == 0
PoolClient == 1
Clients == {ListClient, PoolClient}
ClientOf(t) == IF t = ListThread THEN ListClient ELSE PoolClient

Unlocked == -1

\* locals of a goroutine between two calls
LocInit ==
    [tag |-> "", url |-> Empty, repository |-> Empty, auth |-> Empty,
     authHeader |-> Empty, tokenURL |-> Empty, tok |-> Empty, resp |-> NoResponse,
     digest |-> Empty, err |-> Nil, allTags |-> <<>>, page |-> 0,
     \* history of the call under way
     nreq |-> 0, ntok |-> 0, first |-> NoResponse, auth1 |-> Empty,
     served |-> Empty, late |-> FALSE, follows |-> FALSE,
     \* history of the listing under way: its registry requests, the 401
     \* answers that led to a token call, the tag arrays of its decoded pages
     reqs |-> 0, n401 |-> 0, pages |-> <<>>]

NoMsg == [type |-> "none", tags |-> <<>>, tag |-> "", digest |-> Empty, err |-> Nil]
tagsMsg(tags, err) == [NoMsg EXCEPT !.type = "tagsMsg", !.tags = tags, !.err = err]
checkMsg(tag, digest, err) ==
    [NoMsg EXCEPT !.type = "checkMsg", !.tag = tag, !.digest = digest, !.err = err]
nilMsg == [NoMsg EXCEPT !.type = Nil]

TagInfo(tag, digest, err) == [Tag |-> tag, Digest |-> digest, Err |-> err]

NotAuthed == [done |-> FALSE, tok |-> Empty]

\* "Bearer " + token
Bearer(tok) == Cat(<<"Bearer", " ">>, tok)

\* initialModel(image, digest, workers)
initialModel(image, digest, workers) ==
    [image |-> image, targetDigest |-> digest, workers |-> workers, tags |-> <<>>,
     matchingTags |-> <<>>, current |-> 0, total |-> 0, done |-> FALSE,
     err |-> Nil, hasChan |-> FALSE]

FdIdle == [pc |-> "idle", i |-> 0, registryURL |-> Empty, repository |-> Empty,
           tags |-> <<>>]

\* no parsing function is called on its own
NoRef == [registryURL |-> Empty, repository |-> Empty, err |-> Nil]
NoCall == [fn |-> "none", arg |-> Empty, done |-> FALSE, next |-> Empty, ref |-> NoRef,
           form |-> [realm |-> Empty, service |-> Empty, scope |-> Empty, sep |-> Empty], repository |-> Empty, digest |-> Empty, workers |-> 0,
           chal |-> [err |-> Nil, tokenURL |-> Empty]]

\* what every run starts from, whoever drives it
InitCommon ==
    /\ token = [c \in Clients |-> Empty]
    /\ tokenMutex = [c \in Clients |-> Unlocked]
    /\ loc = [t \in Threads |-> LocInit]
    /\ closer = "none"
    /\ wg = 0
    /\ jobs = <<>>
    /\ jobsClosed = FALSE
    /\ resultsChan = <<>>
    /\ resultsClosed = FALSE
    /\ ctxDone = FALSE
    /\ msg = NoMsg
    /\ quit = FALSE
    /\ processed = 0
    /\ testDone = FALSE
    /\ sentCount = [tg \in TagNames |-> 0]
    /\ expected = <<>>
    /\ panicked = FALSE
    /\ unpulledAtCancel = FALSE
    /\ after = [w \in Workers |-> 0]
    /\ authed = [c \in Clients |-> NotAuthed]
    /\ exitStatus = <<>>

\* the history of token requests: not kept, or kept from the start of a run
NoTokenGets == [on |-> FALSE, n |-> 0, noToken |-> FALSE, list |-> 0]
CountTokenGets == [on |-> TRUE, n |-> 0, noToken |-> FALSE, list |-> 0]

\* rc.httpClient.Get(tokenURL) is called (line 159)
CountGet(g) == IF g.on THEN [g EXCEPT !.n = @ + 1] ELSE g

\* the token endpoint has answered: with the token tok (lines 177-180), or
\* with no token at all when the request failed (lines 160-175)
NoteToken(g, tok) == IF g.on /\ tok = Empty THEN [g EXCEPT !.noToken = TRUE] ELSE g

\* ------------------------------------------------------------ client: shared

\* rc.tokenMutex.Lock() by goroutine t standing at `from`
Lock(t, from, to) ==
    /\ pc[t] = from
    /\ tokenMutex[ClientOf(t)] = Unlocked
    /\ tokenMutex' = [tokenMutex EXCEPT ![ClientOf(t)] = t]
    /\ pc' = [pc EXCEPT ![t] = to]
    /\ UNCHANGED <<tagLimit, endless, call, exitStatus, tokenGets, token, loc, ctxDone, poolVars, resultsCap, uiVars, testVars, histVars>>

\* Goroutine t is in the critical section that starts at `lockpc`: it took the
\* mutex in a step of its own and stands at `cspc`, or it stands at `lockpc`
\* with the mutex free and Lock() is the first thing the step does.  The mutex
\* makes the sections atomic with respect to each other, so a behaviour may
\* take Lock, section and Unlock in one step.
InSection(t, lockpc, cspc) ==
    \/ pc[t] = cspc /\ tokenMutex[ClientOf(t)] = t
    \/ pc[t] = lockpc /\ tokenMutex[ClientOf(t)] = Unlocked

\* "Use cached token if available", then httpClient.Do(req): the locals once
\* the first request of a call is on its way
FirstRequest(l, cached, follows) ==
    [l EXCEPT !.auth = IF cached # Empty THEN Bearer(cached) ELSE Empty,
              !.auth1 = IF cached # Empty THEN Bearer(cached) ELSE Empty,
              !.authHeader = Empty, !.tokenURL = Empty, !.tok = Empty,
              !.resp = NoResponse, !.first = NoResponse,
              !.digest = Empty, !.err = Nil,
              !.nreq = 1, !.ntok = 0, !.follows = follows, !.reqs = l.reqs + 1]

\* "Retry with token": the locals once the second request is on its way
RetryRequest(l, tok) ==
    [l EXCEPT !.tok = tok, !.auth = Bearer(tok), !.nreq = l.nreq + 1,
              !.reqs = l.reqs + 1]

\* the digest header of a final 200 response, for the history
Served(r) == IF r.status = 200 THEN r.digest ELSE Empty

\* the locals of a worker whose fetchManifestDigest has returned: the tag and
\* the two results; everything else is out of scope
Returned(l, digest, err, served) ==
    [LocInit EXCEPT !.tag = l.tag, !.digest = digest, !.err = err, !.served = served]

\* Fail of a fetchTagsList that hands back the tags gathered before the failure
FailKeepTags(t, r, e) ==
    IF t = ListThread
    THEN /\ pc' = [pc EXCEPT ![t] = "ft_done"]
         /\ loc' = [loc EXCEPT ![t].resp = r, ![t].err = e,
                               ![t].first = IF loc[t].nreq = 1 THEN r ELSE @]
         /\ msg' = tagsMsg(loc[t].allTags, e)
    ELSE /\ pc' = [pc EXCEPT ![t] = "send"]
         /\ loc' = [loc EXCEPT ![t] = Returned(@, Empty, e, Served(r))]
         /\ msg' = msg

\* the call under way in goroutine t returns the error e to its caller:
\* FetchDigests' worker sends it as the tag's result, fetchTagsList gives up
\* and fetchTags wraps the error in a tagsMsg
Fail(t, r, e) ==
    IF t = ListThread
    THEN /\ pc' = [pc EXCEPT ![t] = "ft_done"]
         /\ loc' = [loc EXCEPT ![t].resp = r, ![t].err = e,
                               ![t].first = IF loc[t].nreq = 1 THEN r ELSE @]
         /\ msg' = tagsMsg(<<>>, e)
    ELSE /\ pc' = [pc EXCEPT ![t] = "send"]
         /\ loc' = [loc EXCEPT ![t] = Returned(@, Empty, e, Served(r))]
         /\ msg' = msg

\* the first call on a client that went 401 -> token -> 200 is remembered
Authed(t, r) ==
    IF /\ ~authed[ClientOf(t)].done
       /\ loc[t].auth1 = Empty
       /\ loc[t].first.status = 401
       /\ r.status = 200
    THEN [authed EXCEPT ![ClientOf(t)] = [done |-> TRUE, tok |-> loc[t].tok]]
    ELSE authed

\* ------------------------------------------------------------ getBearerToken

\* getBearerToken, line 118
GbLock(t) == Lock(t, "gb_lock", "gb_cs")

\* GbCheck of a getBearerToken that drops a cached token and asks for a new one
GbCheckInvalidate(t) ==
    /\ InSection(t, "gb_lock", "gb_cs")
    /\ tokenMutex' = [tokenMutex EXCEPT ![ClientOf(t)] = Unlocked]
    /\ token' = [token EXCEPT ![ClientOf(t)] = Empty]
    /\ LET p == ChallengeOf[loc[t].authHeader][loc[t].repository]
       IN  IF p.err # Nil
           THEN Fail(t, loc[t].resp, Error)
           ELSE /\ loc' = [loc EXCEPT ![t].tokenURL = p.tokenURL, ![t].ntok = @ + 1]
                /\ pc' = [pc EXCEPT ![t] = "gb_do"]
                /\ msg' = msg
    /\ tokenGets' = IF pc'[t] = "gb_do" THEN CountGet(tokenGets) ELSE tokenGets
    /\ UNCHANGED <<tagLimit, endless, call, exitStatus, ctxDone, poolVars, resultsCap, m, cmd, quit, testVars, histVars>>

\* GbCheck of a getBearerToken that parses the challenge before it looks at the
\* cache
GbCheckParseFirst(t) ==
    /\ InSection(t, "gb_lock", "gb_cs")
    /\ tokenMutex' = [tokenMutex EXCEPT ![ClientOf(t)] = Unlocked]
    /\ LET p == ChallengeOf[loc[t].authHeader][loc[t].repository]
       IN  IF p.err # Nil
           THEN Fail(t, loc[t].resp, Error)
           ELSE IF token[ClientOf(t)] # Empty
           THEN /\ loc' = [loc EXCEPT ![t] = RetryRequest(@, token[ClientOf(t)])]
                /\ pc' = [pc EXCEPT ![t] = IF t = ListThread THEN "tp_retry" ELSE "fm_retry"]
                /\ msg' = msg
           ELSE /\ loc' = [loc EXCEPT ![t].tokenURL = p.tokenURL, ![t].ntok = @ + 1]
                /\ pc' = [pc EXCEPT ![t] = "gb_do"]
                /\ msg' = msg
    /\ tokenGets' = IF pc'[t] = "gb_do" THEN CountGet(tokenGets) ELSE tokenGets
    /\ UNCHANGED <<tagLimit, endless, call, exitStatus, token, ctxDone, poolVars, resultsCap, m, cmd, quit, testVars, histVars>>

\* a getBearerToken that requests a token whatever the challenge parses to
GbCheckIgnoreParseError(t) ==
    /\ InSection(t, "gb_lock", "gb_cs")
    /\ tokenMutex' = [tokenMutex EXCEPT ![ClientOf(t)] = Unlocked]
    /\ IF token[ClientOf(t)] # Empty
       THEN /\ loc' = [loc EXCEPT ![t] = RetryRequest(@, token[ClientOf(t)])]
            /\ pc' = [pc EXCEPT ![t] = IF t = ListThread THEN "tp_retry" ELSE "fm_retry"]
            /\ msg' = msg
       ELSE LET p == ChallengeOf[loc[t].authHeader][loc[t].repository]
            IN  IF FALSE
                THEN Fail(t, loc[t].resp, Error)
                ELSE /\ loc' = [loc EXCEPT ![t].tokenURL = p.tokenURL, ![t].ntok = @ + 1]
                     /\ pc' = [pc EXCEPT ![t] = "gb_do"]
                     /\ msg' = msg
    /\ tokenGets' = IF pc'[t] = "gb_do" THEN CountGet(tokenGets) ELSE tokenGets
    /\ UNCHANGED <<tagLimit, endless, call, exitStatus, token, ctxDone, poolVars, resultsCap, m, cmd, quit, testVars, histVars>>

\* a getBearerToken that asks for a fresh token when the request that was
\* answered 401 already carried the cached one
GbCheckRefresh(t) ==
    /\ InSection(t, "gb_lock", "gb_cs")
    /\ tokenMutex' = [tokenMutex EXCEPT ![ClientOf(t)] = Unlocked]
    /\ IF token[ClientOf(t)] # Empty /\ loc[t].auth1 = Empty
       THEN /\ loc' = [loc EXCEPT ![t] = RetryRequest(@, token[ClientOf(t)])]
            /\ pc' = [pc EXCEPT ![t] = IF t = ListThread THEN "tp_retry" ELSE "fm_retry"]
            /\ msg' = msg
       ELSE LET p == ChallengeOf[loc[t].authHeader][loc[t].repository]
            IN  IF p.err # Nil
                THEN Fail(t, loc[t].resp, Error)
                ELSE /\ loc' = [loc EXCEPT ![t].tokenURL = p.tokenURL, ![t].ntok = @ + 1]
                     /\ pc' = [pc EXCEPT ![t] = "gb_do"]
                     /\ msg' = msg
    /\ tokenGets' = IF pc'[t] = "gb_do" THEN CountGet(tokenGets) ELSE tokenGets
    /\ UNCHANGED <<tagLimit, endless, call, exitStatus, token, ctxDone, poolVars, resultsCap, m, cmd, quit, testVars, histVars>>

\* a getBearerToken without the cache check of lines 118-124
GbCheckNoCache(t) ==
    /\ InSection(t, "gb_lock", "gb_cs")
    /\ tokenMutex' = [tokenMutex EXCEPT ![ClientOf(t)] = Unlocked]
    /\ IF FALSE
       THEN /\ loc' = [loc EXCEPT ![t] = RetryRequest(@, token[ClientOf(t)])]
            /\ pc' = [pc EXCEPT ![t] = IF t = ListThread THEN "tp_retry" ELSE "fm_retry"]
            /\ msg' = msg
       ELSE LET p == ChallengeOf[loc[t].authHeader][loc[t].repository]
            IN  IF p.err # Nil
                THEN Fail(t, loc[t].resp, Error)
                ELSE /\ loc' = [loc EXCEPT ![t].tokenURL = p.tokenURL, ![t].ntok = @ + 1]
                     /\ pc' = [pc EXCEPT ![t] = "gb_do"]
                     /\ msg' = msg
    /\ tokenGets' = IF pc'[t] = "gb_do" THEN CountGet(tokenGets) ELSE tokenGets
    /\ UNCHANGED <<tagLimit, endless, call, exitStatus, token, ctxDone, poolVars, resultsCap, m, cmd, quit, testVars, histVars>>

\* a getBearerToken that returns the cached token without rc.tokenMutex.Unlock()
GbCheckKeepLock(t) ==
    /\ InSection(t, "gb_lock", "gb_cs")
    /\ tokenMutex' = [tokenMutex EXCEPT ![ClientOf(t)] =
                         IF token[ClientOf(t)] # Empty THEN t ELSE Unlocked]
    /\ IF token[ClientOf(t)] # Empty
       THEN /\ loc' = [loc EXCEPT ![t] = RetryRequest(@, token[ClientOf(t)])]
            /\ pc' = [pc EXCEPT ![t] = IF t = ListThread THEN "tp_retry" ELSE "fm_retry"]
            /\ msg' = msg
       ELSE LET p == ChallengeOf[loc[t].authHeader][loc[t].repository]
            IN  IF p.err # Nil
                THEN Fail(t, loc[t].resp, Error)
                ELSE /\ loc' = [loc EXCEPT ![t].tokenURL = p.tokenURL, ![t].ntok = @ + 1]
                     /\ pc' = [pc EXCEPT ![t] = "gb_do"]
                     /\ msg' = msg
    /\ tokenGets' = IF pc'[t] = "gb_do" THEN CountGet(tokenGets) ELSE tokenGets
    /\ UNCHANGED <<tagLimit, endless, call, exitStatus, token, ctxDone, poolVars, resultsCap, m, cmd, quit, testVars, histVars>>

\* getBearerToken, lines 118-159: the cache check, and on a miss the parse of
\* the challenge and the dispatch of the token request
GbCheck(t) ==
    /\ InSection(t, "gb_lock", "gb_cs")
    /\ tokenMutex' = [tokenMutex EXCEPT ![ClientOf(t)] = Unlocked]
    /\ IF token[ClientOf(t)] # Empty
       THEN /\ loc' = [loc EXCEPT ![t] = RetryRequest(@, token[ClientOf(t)])]
            /\ pc' = [pc EXCEPT ![t] = IF t = ListThread THEN "tp_retry" ELSE "fm_retry"]
            /\ msg' = msg
       ELSE LET p == ChallengeOf[loc[t].authHeader][loc[t].repository]
            IN  IF p.err # Nil
                THEN Fail(t, loc[t].resp, Error)
                ELSE /\ loc' = [loc EXCEPT ![t].tokenURL = p.tokenURL, ![t].ntok = @ + 1]
                     /\ pc' = [pc EXCEPT ![t] = "gb_do"]
                     /\ msg' = msg
    /\ tokenGets' = IF pc'[t] = "gb_do" THEN CountGet(tokenGets) ELSE tokenGets
    /\ UNCHANGED <<tagLimit, endless, call, exitStatus, token, ctxDone, poolVars, resultsCap, m, cmd, quit, testVars, histVars>>

\* the token a decoded token response yields (lines 177-180)
TokenOf(r) == IF r.token = Empty THEN r.access_token ELSE r.token

\* getBearerToken, lines 159-180: the token endpoint answers
GbResp(t) ==
    /\ pc[t] = "gb_do"
    /\ \E r \in TokenResponses :
         IF r.status = 0 \/ r.status # 200 \/ ~r.bodyOK
         THEN Fail(t, loc[t].resp, Error)
         ELSE /\ loc' = [loc EXCEPT ![t].tok = TokenOf(r)]
              /\ pc' = [pc EXCEPT ![t] = "gb_lock2"]
              /\ msg' = msg
    /\ tokenGets' = IF pc'[t] = "gb_lock2"
                    THEN NoteToken(tokenGets, loc'[t].tok)
                    ELSE NoteToken(tokenGets, Empty)
    /\ UNCHANGED <<tagLimit, endless, call, exitStatus, clientVars, ctxDone, poolVars, resultsCap, m, cmd, quit, testVars, histVars>>

\* getBearerToken, line 183
GbLock2(t) == Lock(t, "gb_lock2", "gb_cs2")

\* getBearerToken, lines 183-187 ("Cache the token"), and the caller's retry
GbStore(t) ==
    /\ InSection(t, "gb_lock2", "gb_cs2")
    /\ token' = [token EXCEPT ![ClientOf(t)] = loc[t].tok]
    /\ tokenMutex' = [tokenMutex EXCEPT ![ClientOf(t)] = Unlocked]
    /\ loc' = [loc EXCEPT ![t] = RetryRequest(@, loc[t].tok)]
    /\ pc' = [pc EXCEPT ![t] = IF t = ListThread THEN "tp_retry" ELSE "fm_retry"]
    /\ UNCHANGED <<tagLimit, endless, call, exitStatus, tokenGets, ctxDone, poolVars, resultsCap, uiVars, testVars, histVars>>

\* ------------------------------------------------------- fetchManifestDigest

\* ManifestResult without the status check of line 369
ManifestResultAnyStatus(r) ==
    IF r.status = 0 THEN [digest |-> Empty, err |-> Error]
    ELSE IF r.digest = Empty THEN [digest |-> Empty, err |-> Error]
    ELSE [digest |-> r.digest, err |-> Nil]

\* the outcome of a manifest fetch whose last response is r (lines 369-379),
\* a transport error (lines 332-334, 363-365) included
ManifestResult(r) ==
    IF r.status = 0 THEN [digest |-> Empty, err |-> Error]
    ELSE IF r.status # 200 THEN [digest |-> Empty, err |-> Error]
    ELSE IF r.digest = Empty THEN [digest |-> Empty, err |-> Error]
    ELSE [digest |-> r.digest, err |-> Nil]

\* fetchManifestDigest returns: the worker holds the result it will send
FmReturn(w, r) ==
    /\ loc' = [loc EXCEPT ![w] = Returned(@, ManifestResult(r).digest,
                                           ManifestResult(r).err, Served(r))]
    /\ pc' = [pc EXCEPT ![w] = "send"]
    /\ msg' = msg

\* fetchManifestDigest, line 325
FmLock(w) == Lock(w, "fm_lock", "fm_cs")

\* fetchManifestDigest, lines 325-331
FmSend(w) ==
    /\ InSection(w, "fm_lock", "fm_cs")
    /\ tokenMutex' = [tokenMutex EXCEPT ![PoolClient] = Unlocked]
    /\ loc' = [loc EXCEPT ![w] = FirstRequest(@, token[PoolClient], FALSE)]
    /\ pc' = [pc EXCEPT ![w] = "fm_do"]
    /\ UNCHANGED <<tagLimit, endless, call, exitStatus, tokenGets, token, ctxDone, poolVars, resultsCap, uiVars, testVars, histVars>>

\* a fetchManifestDigest that asks for a token on every 401, whether or not
\* the response carries a Www-Authenticate header
FmRespAnyUnauthorized(w) ==
    /\ pc[w] = "fm_do"
    /\ \E r \in ManifestResponses :
         IF r.status = 401
         THEN /\ loc' = [loc EXCEPT ![w].resp = r, ![w].first = r,
                                    ![w].authHeader = r.wwwAuth]
              /\ pc' = [pc EXCEPT ![w] = "gb_lock"]
              /\ msg' = msg
         ELSE FmReturn(w, r)
    /\ UNCHANGED <<tagLimit, endless, call, exitStatus, tokenGets, clientVars, ctxDone, poolVars, resultsCap, m, cmd, quit, testVars, histVars>>

\* fetchManifestDigest, lines 331-347 and 369-379: the first response
FmResp(w) ==
    /\ pc[w] = "fm_do"
    /\ \E r \in ManifestResponses :
         IF r.status = 401
         THEN IF r.wwwAuth = Empty
              THEN Fail(w, r, Error)
              ELSE /\ loc' = [loc EXCEPT ![w].resp = r, ![w].first = r,
                                         ![w].authHeader = r.wwwAuth]
                   /\ pc' = [pc EXCEPT ![w] = "gb_lock"]
                   /\ msg' = msg
         ELSE FmReturn(w, r)
    /\ UNCHANGED <<tagLimit, endless, call, exitStatus, tokenGets, clientVars, ctxDone, poolVars, resultsCap, m, cmd, quit, testVars, histVars>>

\* fetchManifestDigest, lines 362-379: the response to the retry
FmRetryResp(w) ==
    /\ pc[w] = "fm_retry"
    /\ \E r \in ManifestResponses : FmReturn(w, r)
    /\ UNCHANGED <<tagLimit, endless, call, exitStatus, tokenGets, clientVars, ctxDone, poolVars, resultsCap, m, cmd, quit, testVars, histVars>>

\* ------------------------------------------------ fetchTagsPage, fetchTagsList

\* fetchTagsPage, lines 271-285: the next request URL a Link header gives
NextURL(url, linkHeader) ==
    IF linkHeader = Empty THEN Empty
    ELSE LET nextPath == parseLinkHeader(linkHeader)
             idx      == Index(url, <<"/", "v2", "/">>)
             baseURL  == IF idx > 0 THEN SubSeq(url, 1, idx - 1) ELSE url
         IN  IF nextPath = Empty THEN Empty ELSE Cat(baseURL, nextPath)

\* PageDone of a fetchTagsList that puts each page before the earlier ones
PageDonePrepend(r) ==
    IF r.status = 0 THEN Fail(ListThread, r, Error)
    ELSE IF r.status # 200 THEN Fail(ListThread, r, Error)
    ELSE IF ~r.bodyOK THEN Fail(ListThread, r, Error)
    ELSE LET nextURL == NextURL(loc[ListThread].url, r.link)
             allTags == r.tags \o loc[ListThread].allTags
         IN  /\ loc' = [loc EXCEPT ![ListThread].resp = r,
                                   ![ListThread].first =
                                       IF loc[ListThread].nreq = 1 THEN r ELSE @,
                                   ![ListThread].allTags = allTags,
                                   ![ListThread].url = nextURL,
                                   ![ListThread].pages = Append(@, r.tags)]
             /\ IF nextURL # Empty
                THEN /\ pc' = [pc EXCEPT ![ListThread] = "tp_lock"]
                     /\ msg' = msg
                ELSE /\ pc' = [pc EXCEPT ![ListThread] = "ft_done"]
                     /\ msg' = tagsMsg(allTags, Nil)

\* a listing loop with a ceiling on the number of pages: at the MaxPages-th
\* page it returns what it has, whatever the page's Link header says
PageDoneCeiling(r) ==
    IF r.status = 0 THEN Fail(ListThread, r, Error)
    ELSE IF r.status # 200 THEN Fail(ListThread, r, Error)
    ELSE IF ~r.bodyOK THEN Fail(ListThread, r, Error)
    ELSE LET nextURL == IF loc[ListThread].page >= MaxPages THEN Empty
                        ELSE NextURL(loc[ListThread].url, r.link)
             allTags == loc[ListThread].allTags \o r.tags
         IN  /\ loc' = [loc EXCEPT ![ListThread].resp = r,
                                   ![ListThread].first =
                                       IF loc[ListThread].nreq = 1 THEN r ELSE @,
                                   ![ListThread].allTags = allTags,
                                   ![ListThread].url = nextURL,
                                   ![ListThread].pages = Append(@, r.tags)]
             /\ IF nextURL # Empty
                THEN /\ pc' = [pc EXCEPT ![ListThread] = "tp_lock"]
                     /\ msg' = msg
                ELSE /\ pc' = [pc EXCEPT ![ListThread] = "ft_done"]
                     /\ msg' = tagsMsg(allTags, Nil)

\* fetchTagsPage, lines 260-287, and the loop of fetchTagsList around it
\* (lines 296-304): the page's last response is r
PageDone(r) ==
    IF r.status = 0 THEN Fail(ListThread, r, Error)
    ELSE IF r.status # 200 THEN Fail(ListThread, r, Error)
    ELSE IF ~r.bodyOK THEN Fail(ListThread, r, Error)
    ELSE LET nextURL == NextURL(loc[ListThread].url, r.link)
             allTags == loc[ListThread].allTags \o r.tags
         IN  /\ loc' = [loc EXCEPT ![ListThread].resp = r,
                                   ![ListThread].first =
                                       IF loc[ListThread].nreq = 1 THEN r ELSE @,
                                   ![ListThread].allTags = allTags,
                                   ![ListThread].url = nextURL,
                                   ![ListThread].pages = Append(@, r.tags)]
             /\ IF nextURL # Empty
                THEN /\ pc' = [pc EXCEPT ![ListThread] = "tp_lock"]
                     /\ msg' = msg
                ELSE /\ pc' = [pc EXCEPT ![ListThread] = "ft_done"]
                     /\ msg' = tagsMsg(allTags, Nil)

\* fetchTags, lines 441-447, and fetchTagsList, lines 292-295
FtStart ==
    /\ pc[ListThread] = "fetchTags"
    /\ LET ref == parseImageReference(m.image)
       IN  IF ref.err # Nil
           THEN /\ msg' = tagsMsg(<<>>, ref.err)
                /\ pc' = [pc EXCEPT ![ListThread] = "ft_done"]
                /\ loc' = loc
           ELSE /\ loc' = [loc EXCEPT
                      ![ListThread].url =
                          Cat(Cat(Cat(ref.registryURL, <<"/", "v2", "/">>), ref.repository),
                              <<"/", "tags", "/", "list?n=1000">>),
                      ![ListThread].repository = ref.repository]
                /\ pc' = [pc EXCEPT ![ListThread] = "tp_lock"]
                /\ msg' = msg
    /\ UNCHANGED <<tagLimit, endless, call, exitStatus, tokenGets, clientVars, ctxDone, poolVars, resultsCap, m, cmd, quit, testVars, histVars>>

\* what the registry may answer to the request for the page under way: a
\* registry that is not endless names a next page on its first MaxPages - 1
\* pages at most, an endless one on every page it serves
ServedPages ==
    IF endless
    THEN {r \in PageResponses(loc[ListThread].allTags, TRUE, tagLimit) :
            (r.status = 200 /\ r.bodyOK) => r.link = LinkNext}
    ELSE PageResponses(loc[ListThread].allTags,
                       loc[ListThread].page < MaxPages, tagLimit)

\* fetchTagsPage, line 222
TpLock == Lock(ListThread, "tp_lock", "tp_cs")

\* fetchTagsPage, lines 222-228
TpSend ==
    /\ InSection(ListThread, "tp_lock", "tp_cs")
    /\ endless => loc[ListThread].page < MaxLoopPages
    /\ tokenMutex' = [tokenMutex EXCEPT ![ListClient] = Unlocked]
    /\ loc' = [loc EXCEPT ![ListThread] =
                  [FirstRequest(@, token[ListClient], authed[ListClient].done)
                      EXCEPT !.page = @ + 1]]
    /\ pc' = [pc EXCEPT ![ListThread] = "tp_do"]
    /\ UNCHANGED <<tagLimit, endless, call, exitStatus, tokenGets, token, ctxDone, poolVars, resultsCap, uiVars, testVars, histVars>>

\* fetchTagsPage, lines 228-244 and 260-287: the first response
TpResp ==
    /\ pc[ListThread] = "tp_do"
    /\ \E r \in ServedPages :
         IF r.status = 401
         THEN IF r.wwwAuth = Empty
              THEN Fail(ListThread, r, Error)
              ELSE /\ loc' = [loc EXCEPT ![ListThread].resp = r, ![ListThread].first = r,
                                         ![ListThread].authHeader = r.wwwAuth,
                                         ![ListThread].n401 = @ + 1]
                   /\ pc' = [pc EXCEPT ![ListThread] = "gb_lock"]
                   /\ msg' = msg
         ELSE PageDone(r)
    /\ UNCHANGED <<tagLimit, endless, call, exitStatus, tokenGets, clientVars, ctxDone, poolVars, resultsCap, m, cmd, quit, testVars, histVars>>

\* TpRetryResp of a fetchTagsPage that reauthenticates again on a second 401
TpRetryRespAgain ==
    /\ pc[ListThread] = "tp_retry"
    /\ \E r \in ServedPages :
         IF r.status = 401 /\ r.wwwAuth # Empty
         THEN /\ loc' = [loc EXCEPT ![ListThread].resp = r,
                                    ![ListThread].authHeader = r.wwwAuth]
              /\ pc' = [pc EXCEPT ![ListThread] = "gb_lock"]
              /\ msg' = msg
              /\ authed' = authed
         ELSE /\ PageDone(r)
              /\ authed' = Authed(ListThread, r)
    /\ UNCHANGED <<tagLimit, endless, call, exitStatus, tokenGets, clientVars, ctxDone, poolVars, resultsCap, m, cmd, quit, testVars,
                   sentCount, expected, panicked, unpulledAtCancel, after>>

\* fetchTagsPage, lines 253-287: the response to the retry
TpRetryResp ==
    /\ pc[ListThread] = "tp_retry"
    /\ \E r \in ServedPages :
         /\ PageDone(r)
         /\ authed' = Authed(ListThread, r)
    /\ UNCHANGED <<tagLimit, endless, call, exitStatus, tokenGets, clientVars, ctxDone, poolVars, resultsCap, m, cmd, quit, testVars,
                   sentCount, expected, panicked, unpulledAtCancel, after>>

\* -------------------------------------------------------------- FetchDigests

\* tags pulled from the jobs channel so far
Pulled == (IF fd.pc = "enqueue" THEN fd.i ELSE IF fd.pc = "returned" THEN Len(fd.tags) ELSE 0)
              - Len(jobs)

\* FetchDigests is started on its own goroutine with these arguments
FdStart(registryURL, repository, tags) ==
    [pc |-> "spawn", i |-> 0, registryURL |-> registryURL, repository |-> repository,
     tags |-> tags]

\* a FetchDigests that starts a fixed number of workers whatever rc.workers is
FdSpawnFixed ==
    /\ fd.pc = "spawn"
    /\ wg' = wg + 1
    /\ pc' = [pc EXCEPT ![fd.i + 1] = "range"]
    /\ fd' = IF fd.i + 1 = NumWorkers
             THEN [fd EXCEPT !.pc = "enqueue", !.i = 0]
             ELSE [fd EXCEPT !.i = @ + 1]
    /\ UNCHANGED <<tagLimit, endless, call, exitStatus, tokenGets, clientVars, loc, closer, jobs, jobsClosed, resultsChan, resultsClosed,
                   resultsCap, ctxDone, uiVars, testVars, histVars>>

\* lines 410-424: wg.Add(1) and "go func()" for the next worker
FdSpawn ==
    /\ fd.pc = "spawn"
    /\ wg' = wg + 1
    /\ pc' = [pc EXCEPT ![fd.i + 1] = "range"]
    /\ fd' = IF fd.i + 1 = m.workers
             THEN [fd EXCEPT !.pc = "enqueue", !.i = 0]
             ELSE [fd EXCEPT !.i = @ + 1]
    /\ UNCHANGED <<tagLimit, endless, call, exitStatus, tokenGets, clientVars, loc, closer, jobs, jobsClosed, resultsChan, resultsClosed,
                   resultsCap, ctxDone, uiVars, testVars, histVars>>

\* a FetchDigests whose work queue has room for one tag per worker only
FdEnqueueSmallQueue ==
    /\ fd.pc = "enqueue"
    /\ fd.i < Len(fd.tags)
    /\ Len(jobs) < m.workers
    /\ jobs' = Append(jobs, fd.tags[fd.i + 1])
    /\ fd' = [fd EXCEPT !.i = @ + 1]
    /\ UNCHANGED <<tagLimit, endless, call, exitStatus, tokenGets, clientVars, pc, loc, closer, wg, jobsClosed, resultsChan, resultsClosed,
                   resultsCap, ctxDone, uiVars, testVars, histVars>>

\* lines 427-429: "jobs <- tag"; the channel holds len(tags), so it never blocks
FdEnqueue ==
    /\ fd.pc = "enqueue"
    /\ fd.i < Len(fd.tags)
    /\ Len(jobs) < Len(fd.tags)
    /\ jobs' = Append(jobs, fd.tags[fd.i + 1])
    /\ fd' = [fd EXCEPT !.i = @ + 1]
    /\ UNCHANGED <<tagLimit, endless, call, exitStatus, tokenGets, clientVars, pc, loc, closer, wg, jobsClosed, resultsChan, resultsClosed,
                   resultsCap, ctxDone, uiVars, testVars, histVars>>

\* FdClose run one tag early: the last tag is never enqueued
FdCloseEarly ==
    /\ fd.pc = "enqueue"
    /\ fd.i >= Len(fd.tags) - 1
    /\ jobsClosed' = TRUE
    /\ closer' = "wait"
    /\ fd' = [fd EXCEPT !.pc = "returned"]
    /\ UNCHANGED <<tagLimit, endless, call, exitStatus, tokenGets, clientVars, pc, loc, wg, jobs, resultsChan, resultsClosed, resultsCap,
                   ctxDone, uiVars, testVars, histVars>>

\* lines 430-436: close(jobs), start the closing goroutine, return
FdClose ==
    /\ fd.pc = "enqueue"
    /\ fd.i = Len(fd.tags)
    /\ jobsClosed' = TRUE
    /\ closer' = "wait"
    /\ fd' = [fd EXCEPT !.pc = "returned"]
    /\ UNCHANGED <<tagLimit, endless, call, exitStatus, tokenGets, clientVars, pc, loc, wg, jobs, resultsChan, resultsClosed, resultsCap,
                   ctxDone, uiVars, testVars, histVars>>

\* CloserClose without the wg.Wait() of line 434
CloserCloseNoWait ==
    /\ closer = "wait"
    /\ closer' = "done"
    /\ resultsClosed' = TRUE
    /\ panicked' = (panicked \/ resultsClosed)
    /\ UNCHANGED <<tagLimit, endless, call, exitStatus, tokenGets, clientVars, pc, loc, fd, wg, jobs, jobsClosed, resultsChan, resultsCap,
                   ctxDone, uiVars, testVars, sentCount, expected, unpulledAtCancel, after, authed>>

\* lines 433-436: wg.Wait() returns once the counter is zero; close(resultsChan)
CloserClose ==
    /\ closer = "wait"
    /\ wg = 0
    /\ closer' = "done"
    /\ resultsClosed' = TRUE
    /\ panicked' = (panicked \/ resultsClosed)
    /\ UNCHANGED <<tagLimit, endless, call, exitStatus, tokenGets, clientVars, pc, loc, fd, wg, jobs, jobsClosed, resultsChan, resultsCap,
                   ctxDone, uiVars, testVars, sentCount, expected, unpulledAtCancel, after, authed>>

\* WorkerRange reading the head of the queue without removing it
WorkerRangeKeep(w) ==
    /\ pc[w] = "range"
    /\ IF jobs # <<>>
       THEN /\ jobs' = jobs
            /\ loc' = [loc EXCEPT ![w].tag = Head(jobs), ![w].late = ctxDone]
            /\ pc' = [pc EXCEPT ![w] = "select"]
            /\ wg' = wg
       ELSE /\ jobsClosed
            /\ jobs' = jobs
            /\ loc' = loc
            /\ pc' = [pc EXCEPT ![w] = "exited"]
            /\ wg' = wg - 1
    /\ UNCHANGED <<tagLimit, endless, call, exitStatus, tokenGets, clientVars, fd, closer, jobsClosed, resultsChan, resultsClosed,
                   resultsCap, ctxDone, uiVars, testVars, histVars>>

\* line 414, "for tag := range jobs": take a tag, or leave the loop (and run
\* the deferred wg.Done) once the channel is closed and drained
WorkerRange(w) ==
    /\ pc[w] = "range"
    /\ IF jobs # <<>>
       THEN /\ jobs' = Tail(jobs)
            /\ loc' = [loc EXCEPT ![w].tag = Head(jobs), ![w].late = ctxDone]
            /\ pc' = [pc EXCEPT ![w] = "select"]
            /\ wg' = wg
       ELSE /\ jobsClosed
            /\ jobs' = jobs
            /\ loc' = loc
            /\ pc' = [pc EXCEPT ![w] = "exited"]
            /\ wg' = wg - 1
    /\ UNCHANGED <<tagLimit, endless, call, exitStatus, tokenGets, clientVars, fd, closer, jobsClosed, resultsChan, resultsClosed,
                   resultsCap, ctxDone, uiVars, testVars, histVars>>

\* the request URL and repository a worker hands to fetchManifestDigest
EnterFetch(w) ==
    [loc EXCEPT
        ![w].url = Cat(Cat(Cat(Cat(fd.registryURL, <<"/", "v2", "/">>),
                               fd.repository), <<"/", "manifests", "/">>),
                       Sym(loc[w].tag)),
        ![w].repository = fd.repository]

\* WorkerSelect without the ctx.Done() case of lines 416-417
WorkerSelectNoCancel(w) ==
    /\ pc[w] = "select"
    /\ pc' = [pc EXCEPT ![w] = "fm_lock"]
    /\ wg' = wg
    /\ loc' = EnterFetch(w)
    /\ UNCHANGED <<tagLimit, endless, call, exitStatus, tokenGets, clientVars, fd, closer, jobs, jobsClosed, resultsChan, resultsClosed,
                   resultsCap, ctxDone, uiVars, testVars, histVars>>

\* WorkerSelect returning on cancellation without the deferred wg.Done()
WorkerSelectNoDone(w) ==
    /\ pc[w] = "select"
    /\ IF ctxDone
       THEN /\ pc' = [pc EXCEPT ![w] = "exited"]
            /\ wg' = wg
            /\ loc' = loc
       ELSE /\ pc' = [pc EXCEPT ![w] = "fm_lock"]
            /\ wg' = wg
            /\ loc' = EnterFetch(w)
    /\ UNCHANGED <<tagLimit, endless, call, exitStatus, tokenGets, clientVars, fd, closer, jobs, jobsClosed, resultsChan, resultsClosed,
                   resultsCap, ctxDone, uiVars, testVars, histVars>>

\* lines 415-419: the select on ctx.Done(); cancelled, the worker returns (and
\* wg.Done runs); otherwise it enters fetchManifestDigest (lines 309-322)
WorkerSelect(w) ==
    /\ pc[w] = "select"
    /\ IF ctxDone
       THEN /\ pc' = [pc EXCEPT ![w] = "exited"]
            /\ wg' = wg - 1
            /\ loc' = loc
       ELSE /\ pc' = [pc EXCEPT ![w] = "fm_lock"]
            /\ wg' = wg
            /\ loc' = EnterFetch(w)
    /\ UNCHANGED <<tagLimit, endless, call, exitStatus, tokenGets, clientVars, fd, closer, jobs, jobsClosed, resultsChan, resultsClosed,
                   resultsCap, ctxDone, uiVars, testVars, histVars>>

\* WorkerSend of a worker that, once cancelled, returns instead of sending
WorkerSendDropOnCancel(w) ==
    /\ pc[w] = "send"
    /\ ~resultsClosed
    /\ IF ctxDone
       THEN /\ pc' = [pc EXCEPT ![w] = "exited"]
            /\ wg' = wg - 1
            /\ UNCHANGED <<resultsChan, sentCount, expected, after, loc>>
       ELSE /\ Len(resultsChan) < resultsCap
            /\ resultsChan' =
                   Append(resultsChan, TagInfo(loc[w].tag, loc[w].digest, loc[w].err))
            /\ sentCount' = [sentCount EXCEPT ![loc[w].tag] = @ + 1]
            /\ expected' = IF loc[w].served = m.targetDigest
                           THEN Append(expected, loc[w].tag) ELSE expected
            /\ after' = after
            /\ pc' = [pc EXCEPT ![w] = "range"]
            /\ loc' = [loc EXCEPT ![w] = LocInit]
            /\ wg' = wg
    /\ UNCHANGED <<tagLimit, endless, call, exitStatus, tokenGets, clientVars, fd, closer, jobs, jobsClosed, resultsClosed,
                   resultsCap, ctxDone, uiVars, testVars, unpulledAtCancel, authed, panicked>>

\* WorkerSend of a worker that returns after sending a failed fetch
WorkerSendStopOnError(w) ==
    /\ pc[w] = "send"
    /\ ~resultsClosed
    /\ Len(resultsChan) < resultsCap
    /\ resultsChan' = Append(resultsChan, TagInfo(loc[w].tag, loc[w].digest, loc[w].err))
    /\ sentCount' = [sentCount EXCEPT ![loc[w].tag] = @ + 1]
    /\ expected' = IF loc[w].served = m.targetDigest
                   THEN Append(expected, loc[w].tag) ELSE expected
    /\ after' = [after EXCEPT ![w] = IF ctxDone THEN @ + 1 ELSE @]
    /\ pc' = [pc EXCEPT ![w] = IF loc[w].err # Nil THEN "exited" ELSE "range"]
    /\ wg' = IF loc[w].err # Nil THEN wg - 1 ELSE wg
    /\ loc' = [loc EXCEPT ![w] = LocInit]
    /\ UNCHANGED <<tagLimit, endless, call, exitStatus, tokenGets, clientVars, fd, closer, jobs, jobsClosed, resultsClosed, resultsCap,
                   ctxDone, uiVars, testVars, unpulledAtCancel, authed, panicked>>

\* line 420: "resultsChan <- TagInfo{...}"; blocks while the buffer is full,
\* panics on a closed channel
WorkerSend(w) ==
    /\ pc[w] = "send"
    /\ IF resultsClosed
       THEN /\ panicked' = TRUE
            /\ pc' = [pc EXCEPT ![w] = "panic"]
            /\ UNCHANGED <<resultsChan, sentCount, expected, after, loc>>
       ELSE /\ Len(resultsChan) < resultsCap
            /\ resultsChan' =
                   Append(resultsChan, TagInfo(loc[w].tag, loc[w].digest, loc[w].err))
            /\ sentCount' = [sentCount EXCEPT ![loc[w].tag] = @ + 1]
            /\ expected' = IF loc[w].served = m.targetDigest
                           THEN Append(expected, loc[w].tag) ELSE expected
            /\ after' = [after EXCEPT ![w] = IF ctxDone THEN @ + 1 ELSE @]
            /\ pc' = [pc EXCEPT ![w] = "range"]
            /\ loc' = [loc EXCEPT ![w] = LocInit]
            /\ panicked' = panicked
    /\ UNCHANGED <<tagLimit, endless, call, exitStatus, tokenGets, clientVars, fd, closer, wg, jobs, jobsClosed, resultsClosed, resultsCap,
                   ctxDone, uiVars, testVars, unpulledAtCancel, authed>>

\* ------------------------------------------------------------ Bubble Tea model

\* a startWorkerPool that hands the client of the listing, token cache
\* included, to the pool instead of making a new one
startWorkerPoolSameClient ==
    /\ cmd = "startWorkerPool"
    /\ LET ref == parseImageReference(m.image)
       IN  IF ref.err # Nil
           THEN /\ msg' = checkMsg("", Empty, ref.err)
                /\ cmd' = "none"
                /\ fd' = fd
           ELSE /\ fd' = FdStart(ref.registryURL, ref.repository, m.tags)
                /\ cmd' = "waitForNextResult"
                /\ msg' = msg
    /\ token' = [c \in Clients |-> token[ListClient]]
    /\ loc' = [loc EXCEPT ![ListThread] = LocInit]
    /\ authed' = [authed EXCEPT ![ListClient] = NotAuthed]
    /\ tokenGets' = IF tokenGets.on THEN [tokenGets EXCEPT !.list = tokenGets.n]
                    ELSE tokenGets
    /\ UNCHANGED <<tagLimit, endless, call, exitStatus, tokenMutex, pc, closer, wg, jobs, jobsClosed, resultsChan,
                   resultsClosed, resultsCap, ctxDone, m, quit, testVars,
                   sentCount, expected, panicked, unpulledAtCancel, after>>

\* startWorkerPool, lines 458-467: parse the image again, make a new client,
\* "go client.FetchDigests(...)", then wait for the first result.  The
\* goroutine of fetchTags has returned and its client is unreachable: their
\* state is dropped here.
startWorkerPool ==
    /\ cmd = "startWorkerPool"
    /\ LET ref == parseImageReference(m.image)
       IN  IF ref.err # Nil
           THEN /\ msg' = checkMsg("", Empty, ref.err)
                /\ cmd' = "none"
                /\ fd' = fd
           ELSE /\ fd' = FdStart(ref.registryURL, ref.repository, m.tags)
                /\ cmd' = "waitForNextResult"
                /\ msg' = msg
    /\ token' = [c \in Clients |-> Empty]
    /\ loc' = [loc EXCEPT ![ListThread] = LocInit]
    /\ authed' = [authed EXCEPT ![ListClient] = NotAuthed]
    /\ tokenGets' = IF tokenGets.on THEN [tokenGets EXCEPT !.list = tokenGets.n]
                    ELSE tokenGets
    /\ UNCHANGED <<tagLimit, endless, call, exitStatus, tokenMutex, pc, closer, wg, jobs, jobsClosed, resultsChan,
                   resultsClosed, resultsCap, ctxDone, m, quit, testVars,
                   sentCount, expected, panicked, unpulledAtCancel, after>>

\* waitForNextResult, lines 473-477: one receive from the stream
waitForNextResult ==
    /\ cmd = "waitForNextResult"
    /\ IF resultsChan # <<>>
       THEN /\ msg' = checkMsg(Head(resultsChan).Tag, Head(resultsChan).Digest,
                               Head(resultsChan).Err)
            /\ resultsChan' = Tail(resultsChan)
       ELSE /\ resultsClosed
            /\ msg' = nilMsg
            /\ resultsChan' = resultsChan
    /\ cmd' = "none"
    /\ UNCHANGED <<tagLimit, endless, call, exitStatus, tokenGets, clientVars, pc, loc, fd, closer, wg, jobs, jobsClosed, resultsClosed,
                   resultsCap, ctxDone, m, quit, testVars, histVars>>

\* Update, case tea.KeyMsg "ctrl+c" or "q" (lines 483-489)
UpdateKeyMsg ==
    /\ ~quit
    /\ ctxDone' = TRUE
    /\ unpulledAtCancel' = IF ctxDone THEN unpulledAtCancel ELSE Pulled < Len(fd.tags)
    /\ quit' = TRUE
    /\ UNCHANGED <<tagLimit, endless, call, exitStatus, tokenGets, clientVars, pc, loc, poolVars, resultsCap, m, cmd, msg, testVars,
                   sentCount, expected, panicked, after, authed>>

\* an Update that records the listing error and starts the worker pool all the same
UpdateTagsMsgStartOnError ==
    /\ ~quit
    /\ msg.type = "tagsMsg"
    /\ msg' = NoMsg
    /\ IF msg.err # Nil
       THEN /\ m' = [m EXCEPT !.err = msg.err, !.done = TRUE, !.hasChan = TRUE]
            /\ resultsCap' = m.workers * 2
            /\ cmd' = "startWorkerPool"
            /\ quit' = quit
       ELSE IF Len(msg.tags) > 0
       THEN /\ m' = [m EXCEPT !.tags = msg.tags, !.total = Len(msg.tags),
                              !.hasChan = TRUE]
            /\ resultsCap' = m.workers * 2
            /\ cmd' = "startWorkerPool"
            /\ quit' = quit
       ELSE /\ m' = [m EXCEPT !.tags = msg.tags, !.total = Len(msg.tags), !.done = TRUE]
            /\ quit' = TRUE
            /\ UNCHANGED <<cmd, resultsCap>>
    /\ UNCHANGED <<tagLimit, endless, call, exitStatus, tokenGets, clientVars, pc, loc, poolVars, ctxDone, testVars, histVars>>

\* an Update that starts the worker pool for an empty tag list as well
UpdateTagsMsgStartEmpty ==
    /\ ~quit
    /\ msg.type = "tagsMsg"
    /\ msg' = NoMsg
    /\ IF msg.err # Nil
       THEN /\ m' = [m EXCEPT !.err = msg.err, !.done = TRUE]
            /\ quit' = TRUE
            /\ UNCHANGED <<cmd, resultsCap>>
       ELSE IF Len(msg.tags) >= 0
       THEN /\ m' = [m EXCEPT !.tags = msg.tags, !.total = Len(msg.tags),
                              !.hasChan = TRUE]
            /\ resultsCap' = m.workers * 2
            /\ cmd' = "startWorkerPool"
            /\ quit' = quit
       ELSE /\ m' = [m EXCEPT !.tags = msg.tags, !.total = Len(msg.tags), !.done = TRUE]
            /\ quit' = TRUE
            /\ UNCHANGED <<cmd, resultsCap>>
    /\ UNCHANGED <<tagLimit, endless, call, exitStatus, tokenGets, clientVars, pc, loc, poolVars, ctxDone, testVars, histVars>>

\* Update, case tagsMsg (lines 491-508)
UpdateTagsMsg ==
    /\ ~quit
    /\ msg.type = "tagsMsg"
    /\ msg' = NoMsg
    /\ IF msg.err # Nil
       THEN /\ m' = [m EXCEPT !.err = msg.err, !.done = TRUE]
            /\ quit' = TRUE
            /\ UNCHANGED <<cmd, resultsCap>>
       ELSE IF Len(msg.tags) > 0
       THEN /\ m' = [m EXCEPT !.tags = msg.tags, !.total = Len(msg.tags),
                              !.hasChan = TRUE]
            /\ resultsCap' = m.workers * 2
            /\ cmd' = "startWorkerPool"
            /\ quit' = quit
       ELSE /\ m' = [m EXCEPT !.tags = msg.tags, !.total = Len(msg.tags), !.done = TRUE]
            /\ quit' = TRUE
            /\ UNCHANGED <<cmd, resultsCap>>
    /\ UNCHANGED <<tagLimit, endless, call, exitStatus, tokenGets, clientVars, pc, loc, poolVars, ctxDone, testVars, histVars>>

\* UpdateCheckMsg without the digest comparison of line 513
UpdateCheckMsgAnyDigest ==
    /\ ~quit
    /\ msg.type = "checkMsg"
    /\ msg' = NoMsg
    /\ LET matching == IF msg.err = Nil
                       THEN Append(m.matchingTags, msg.tag) ELSE m.matchingTags
           current  == m.current + 1
       IN  IF current >= m.total
           THEN /\ m' = [m EXCEPT !.matchingTags = matching, !.current = current,
                                  !.done = TRUE]
                /\ quit' = TRUE
                /\ cmd' = cmd
           ELSE /\ m' = [m EXCEPT !.matchingTags = matching, !.current = current]
                /\ quit' = quit
                /\ cmd' = "waitForNextResult"
    /\ UNCHANGED <<tagLimit, endless, call, exitStatus, tokenGets, clientVars, pc, loc, poolVars, resultsCap, ctxDone, testVars, histVars>>

\* an Update that does not count a result that carries an error
UpdateCheckMsgSkipErrors ==
    /\ ~quit
    /\ msg.type = "checkMsg"
    /\ msg' = NoMsg
    /\ LET matching == IF msg.err = Nil /\ msg.digest = m.targetDigest
                       THEN Append(m.matchingTags, msg.tag) ELSE m.matchingTags
           current  == IF msg.err = Nil THEN m.current + 1 ELSE m.current
       IN  IF current >= m.total
           THEN /\ m' = [m EXCEPT !.matchingTags = matching, !.current = current,
                                  !.done = TRUE]
                /\ quit' = TRUE
                /\ cmd' = cmd
           ELSE /\ m' = [m EXCEPT !.matchingTags = matching, !.current = current]
                /\ quit' = quit
                /\ cmd' = "waitForNextResult"
    /\ UNCHANGED <<tagLimit, endless, call, exitStatus, tokenGets, clientVars, pc, loc, poolVars, resultsCap, ctxDone, testVars, histVars>>

\* Update, case checkMsg (lines 510-522)
UpdateCheckMsg ==
    /\ ~quit
    /\ msg.type = "checkMsg"
    /\ msg' = NoMsg
    /\ LET matching == IF msg.err = Nil /\ msg.digest = m.targetDigest
                       THEN Append(m.matchingTags, msg.tag) ELSE m.matchingTags
           current  == m.current + 1
       IN  IF current >= m.total
           THEN /\ m' = [m EXCEPT !.matchingTags = matching, !.current = current,
                                  !.done = TRUE]
                /\ quit' = TRUE
                /\ cmd' = cmd
           ELSE /\ m' = [m EXCEPT !.matchingTags = matching, !.current = current]
                /\ quit' = quit
                /\ cmd' = "waitForNextResult"
    /\ UNCHANGED <<tagLimit, endless, call, exitStatus, tokenGets, clientVars, pc, loc, poolVars, resultsCap, ctxDone, testVars, histVars>>

\* ----------------------------------------------- FetchDigests called directly

\* TestFetchDigests_Cancellation, line 542: cancel()
TestCancel ==
    /\ ~ctxDone
    /\ ctxDone' = TRUE
    /\ unpulledAtCancel' = (Pulled < Len(fd.tags))
    /\ UNCHANGED <<tagLimit, endless, call, exitStatus, tokenGets, clientVars, pc, loc, poolVars, resultsCap, uiVars, testVars,
                   sentCount, expected, panicked, after, authed>>

\* TestFetchDigests_Cancellation, lines 547-557: the collecting loop
TestReceive ==
    /\ ~testDone
    /\ IF resultsChan # <<>>
       THEN /\ resultsChan' = Tail(resultsChan)
            /\ processed' = processed + 1
            /\ testDone' = testDone
       ELSE /\ resultsClosed
            /\ testDone' = TRUE
            /\ UNCHANGED <<resultsChan, processed>>
    /\ UNCHANGED <<tagLimit, endless, call, exitStatus, tokenGets, clientVars, pc, loc, fd, closer, wg, jobs, jobsClosed, resultsClosed,
                   resultsCap, ctxDone, uiVars, histVars>>

\* --------------------------------------------------------------- behaviours

\* the goroutines of one client call
ListStep ==
    \/ FtStart \/ TpSend \/ TpResp \/ TpRetryResp
    \/ GbCheck(ListThread) \/ GbResp(ListThread) \/ GbStore(ListThread)

WorkerStep(w) ==
    \/ WorkerRange(w) \/ WorkerSelect(w) \/ FmSend(w) \/ FmResp(w)
    \/ GbCheck(w) \/ GbResp(w) \/ GbStore(w)
    \/ FmRetryResp(w) \/ WorkerSend(w)

PoolStep == FdSpawn \/ FdEnqueue \/ FdClose \/ CloserClose \/ \E w \in Workers : WorkerStep(w)

\* A run of the program: main has normalised its arguments and built the
\* model, and Init has issued the fetchTags command
InitWith(limit) ==
    /\ InitCommon
    /\ endless = FALSE
    /\ tokenGets = NoTokenGets
    /\ tagLimit = limit
    /\ call = NoCall
    /\ \E image \in Images, digest \in DigestArgs :
         m = initialModel(StripScheme(image), NormalizeDigest(digest), NumWorkers)
    /\ pc = [t \in Threads |-> IF t = ListThread THEN "fetchTags" ELSE "unspawned"]
    /\ fd = FdIdle
    /\ resultsCap = 0
    /\ cmd = "fetchTags"

Init == InitWith(MaxTags)

Next ==
    \/ ListStep
    \/ UpdateTagsMsg
    \/ startWorkerPool
    \/ PoolStep
    \/ waitForNextResult
    \/ UpdateCheckMsg
    \/ UpdateKeyMsg

Spec == Init /\ [][Next]_vars


\* FetchDigests called as the tests call it: a fresh client, a tag list, a
\* buffered channel, a collector that drains the stream, and a cancel()
PoolInitWith(limit) ==
    /\ InitCommon
    /\ endless = FALSE
    /\ tokenGets = NoTokenGets
    /\ tagLimit = limit
    /\ call = NoCall
    /\ m = initialModel(Empty, <<"unused">>, NumWorkers)
    /\ pc = [t \in Threads |-> IF t = ListThread THEN "idle" ELSE "unspawned"]
    /\ \E tags \in TagLists(limit) :
         fd = FdStart(TestRegistry, TestRepository, tags)
    /\ resultsCap = PoolCap
    /\ cmd = "none"

PoolInit == PoolInitWith(MaxTags)

PoolNext == PoolStep \/ TestReceive \/ TestCancel

PoolSpec == PoolInit /\ [][PoolNext]_vars

\* fetchTagsList run on its own, as fetchTags runs it
ListSpec == Init /\ [][ListStep]_vars

\* The Go scheduler runs every goroutine that can take a step, every HTTP call
\* returns (the client has a 30 s timeout), and a goroutine blocked on a full
\* channel is queued and served once there is room.  The key press, and the
\* cancel() of the test, are inputs and may never come.
PoolFairness ==
    /\ WF_vars(FdSpawn \/ FdEnqueue \/ FdClose)
    /\ WF_vars(CloserClose)
    /\ \A w \in Workers : WF_vars(WorkerStep(w)) /\ SF_vars(WorkerSend(w))

FairPoolSpec ==
    /\ PoolInitWith(MaxLiveTags)
    /\ [][PoolNext]_vars
    /\ PoolFairness
    /\ WF_vars(TestReceive)

FairSpec ==
    /\ InitWith(MaxLiveTags)
    /\ [][Next]_vars
    /\ WF_vars(ListStep)
    /\ WF_vars(UpdateTagsMsg)
    /\ WF_vars(startWorkerPool)
    /\ PoolFairness
    /\ WF_vars(waitForNextResult)
    /\ WF_vars(UpdateCheckMsg)

\* ------------------------------------------------------------------- claims

\* how many times tg occurs in tags
Occurrences(tags, tg) == Cardinality({i \in 1..Len(tags) : tags[i] = tg})

RECURSIVE SumOver(_, _)
SumOver(f, S) ==
    IF S = {} THEN 0
    ELSE LET x == CHOOSE y \in S : TRUE IN f[x] + SumOver(f, S \ {x})

\* results sent on the stream so far
SentTotal == SumOver(sentCount, TagNames)

\* a worker has a manifest request, or the token request it led to, under way
InFlight(w) ==
    pc[w] \in {"fm_do", "gb_lock", "gb_cs", "gb_do", "gb_lock2", "gb_cs2", "fm_retry"}

\* C2: every result on the stream carries a submitted tag, and no tag has more
\* results than it has occurrences in the submitted list, cancelled or not.
C2_NoTagTwice ==
    /\ \A i \in 1..Len(resultsChan) :
           \E j \in 1..Len(fd.tags) : fd.tags[j] = resultsChan[i].Tag
    /\ \A tg \in TagNames : sentCount[tg] <= Occurrences(fd.tags, tg)

\* C2 witness: a list that names t1 twice has had both its t1 results sent.
C2_Witness ==
    /\ Occurrences(fd.tags, "t1") = 2
    /\ sentCount["t1"] = 2
    /\ resultsClosed

\* C4: the stream is closed once, only when every worker has exited, and no
\* worker sends on it afterwards (no send on, or close of, a closed channel).
C4_ClosedOnceAfterJoin ==
    /\ ~panicked
    /\ resultsClosed <=> closer = "done"
    /\ resultsClosed => \A w \in Workers : pc[w] = "exited"

\* C4 witness: the stream is closed after every tag of a full list was sent.
C4_Witness ==
    /\ resultsClosed
    /\ Len(fd.tags) = MaxTags
    /\ SentTotal = MaxTags

\* C6: cancelled while a submitted tag was not yet pulled, the stream closes
\* with fewer results than tags; a tag pulled after the signal gets no request
\* and no result.
C6_CancelDropsUnpulled ==
    /\ (resultsClosed /\ unpulledAtCancel) => SentTotal < Len(fd.tags)
    /\ \A w \in Workers : loc[w].late => pc[w] \in {"select", "exited"}

\* C6 witness: the stream closed after a cancel that left tags unpulled, some
\* results were still delivered and a worker dropped a tag it pulled late.
C6_Witness ==
    /\ resultsClosed
    /\ unpulledAtCancel
    /\ SentTotal > 0
    /\ \E w \in Workers : loc[w].late /\ pc[w] = "exited"

\* C9: an emitted TagInfo has an error exactly when it has no digest, and a
\* digest is the Docker-Content-Digest header of a final response of status 200.
C9_DigestXorError ==
    /\ \A i \in 1..Len(resultsChan) :
           (resultsChan[i].Err = Nil) <=> (resultsChan[i].Digest # Empty)
    /\ \A w \in Workers :
           pc[w] = "send" =>
               /\ (loc[w].err = Nil) <=> (loc[w].digest # Empty)
               /\ loc[w].digest # Empty => loc[w].digest = loc[w].served

\* C9 witness: an error result is on the stream while a worker is about to send
\* a digest.
C9_Witness ==
    /\ resultsChan # <<>>
    /\ resultsChan[1].Err = Error
    /\ \E w \in Workers : pc[w] = "send" /\ loc[w].digest = DigestB

\* C3: without cancellation the consumer ends up at the closed stream having
\* received exactly one result per submitted tag, and a result that carries a
\* digest carries the one the registry served for its tag.
C3_AllResultsThenClose ==
    /\ <>(ctxDone \/ (/\ testDone
                      /\ processed = Len(fd.tags)
                      /\ \A tg \in TagNames : sentCount[tg] = Occurrences(fd.tags, tg)))
    /\ [](\A w \in Workers :
              (pc[w] = "send" /\ loc[w].err = Nil) => loc[w].digest = loc[w].served)

\* C3 witness: an uncancelled run of a full list has been received to the end.
C3_Witness ==
    /\ ~ctxDone
    /\ testDone
    /\ Len(fd.tags) = MaxLiveTags
    /\ processed = MaxLiveTags

C8_FailureIsPerTag ==
    /\ [][\A w \in Workers :
              (pc[w] = "send" /\ pc'[w] # "send" /\ loc[w].err # Nil) =>
                  /\ resultsChan' = Append(resultsChan,
                                           TagInfo(loc[w].tag, Empty, Error))
                  /\ pc'[w] = "range"
                  /\ \A o \in Workers \ {w} : pc'[o] = pc[o]]_vars
    /\ [](\A w \in Workers :
              pc[w] = "exited" => ctxDone \/ (jobsClosed /\ jobs = <<>>))
    /\ []((resultsClosed /\ ~ctxDone) =>
              \A tg \in TagNames : sentCount[tg] = Occurrences(fd.tags, tg))

\* C8 witness: the first result of a full list was an error, all tags are
\* pulled and every worker holds one, so the worker that failed went on.
C8_Witness ==
    /\ ~ctxDone
    /\ Len(fd.tags) = MaxTags
    /\ fd.pc = "returned"
    /\ jobs = <<>>
    /\ SentTotal = 1
    /\ resultsChan # <<>>
    /\ resultsChan[1].Err = Error
    /\ \A w \in Workers : pc[w] \notin {"unspawned", "range", "exited"}

\* C1: a run that is not interrupted and whose listing succeeds ends up done;
\* then every listed tag has been checked and the matching tags are, in the
\* order their results came, the tags whose manifest was served with the
\* target digest.
C1_DoneMeansAllChecked ==
    /\ [](m.done /\ m.err = Nil =>
              /\ m.current = Len(m.tags)
              /\ m.matchingTags = expected)
    /\ <>(ctxDone \/ m.done)

\* C1 witness: a run over a full list is done with one match and one tag that
\* did not match.
C1_Witness ==
    /\ m.done
    /\ ~ctxDone
    /\ Len(m.tags) = MaxLiveTags
    /\ Len(m.matchingTags) = 1

\* C10: on a fresh client the call that went 401 (Bearer challenge) -> token ->
\* 200 made exactly one token request and retried with "Bearer <token>"; a
\* call started after it sends that token on its first request and makes no
\* token request.
C10_AuthOnce ==
    LET l == loc[ListThread]
        a == authed[ListClient]
    IN  a.done =>
            IF l.follows
            THEN l.auth1 = Bearer(a.tok) /\ l.ntok = 0
            ELSE l.ntok = 1 /\ l.auth = Bearer(a.tok)

\* C11: one tag-page or manifest fetch sends at most two registry requests and
\* at most one token request, a second request only after a 401; whatever
\* answers the retry ends the fetch, and an answer other than 200 ends it with
\* an error.
C11_OneRetry ==
    /\ [](\A t \in Threads :
              /\ loc[t].nreq <= 2
              /\ loc[t].ntok <= 1
              /\ (loc[t].nreq = 2 \/ loc[t].ntok = 1) => loc[t].first.status = 401)
    /\ [][(pc[ListThread] = "tp_retry" /\ pc'[ListThread] # "tp_retry") =>
              /\ pc'[ListThread] \in {"tp_lock", "ft_done"}
              /\ loc'[ListThread].resp.status # 200 =>
                     /\ pc'[ListThread] = "ft_done"
                     /\ msg' = tagsMsg(<<>>, Error)]_vars
    /\ [][\A w \in Workers :
              (pc[w] = "fm_retry" /\ pc'[w] # "fm_retry") =>
                  /\ pc'[w] = "send"
                  /\ loc'[w].served = Empty => loc'[w].err = Error]_vars

\* C11 witness: a tag-page fetch ended with an error after its retry was
\* answered 401 again: two requests, one token request.
C11_Witness ==
    /\ pc[ListThread] = "ft_done"
    /\ loc[ListThread].nreq = 2
    /\ loc[ListThread].ntok = 1
    /\ loc[ListThread].resp.status = 401
    /\ msg.err = Error

\* C12 as stated: once a client's token cache holds a non-empty token, no
\* later step empties it or replaces it with a different value.
C12_NeverReplaced ==
    [][\A c \in Clients : token[c] # Empty => token'[c] = token[c]]_vars

\* C12 amended: a client's token cache is changed only by the store that ends
\* a getBearerToken call which found the cache empty and made its own token
\* request, and it becomes the token that request returned; such a store may
\* come after a concurrent call's store and replace its token.
C12_OnlyRacingStore ==
    [][\A c \in Clients :
           token'[c] # token[c] =>
               \E t \in Threads :
                   /\ ClientOf(t) = c
                   /\ pc[t] \in {"gb_lock2", "gb_cs2"}
                   /\ loc[t].ntok = 1
                   /\ token'[c] = loc[t].tok]_vars

\* C12 witness: the cache holds one token while a worker retries with the
\* other token, which the cache held before.
C12_Witness ==
    /\ token[PoolClient] = TokB
    /\ \E w \in Workers : pc[w] = "fm_retry" /\ loc[w].tok = TokA

\* C13: getBearerToken never returns success with an empty token: a call goes
\* on to store a token, and a fetch retries with the token of a call, only
\* when that token is non-empty.
C13_NoEmptyTokenSuccess ==
    \A t \in Threads :
        pc[t] \in {"gb_lock2", "gb_cs2", "tp_retry", "fm_retry"} => loc[t].tok # Empty

\* C14: with a token cached, getBearerToken returns that token for any
\* challenge, makes no token request and leaves the cache as it is: the caller
\* goes straight to its retry with the cached token.
C14_CachedTokenReturned ==
    [][\A t \in Threads :
           (/\ pc[t] \in {"gb_lock", "gb_cs"}
            /\ pc'[t] \notin {"gb_lock", "gb_cs"}
            /\ token[ClientOf(t)] # Empty) =>
               /\ token' = token
               /\ pc'[t] \in {"tp_retry", "fm_retry"}
               /\ loc'[t].tok = token[ClientOf(t)]
               /\ loc'[t].auth = Bearer(token[ClientOf(t)])
               /\ loc'[t].ntok = loc[t].ntok]_vars

\* C14 witness: a worker challenged with a non-Bearer header retries with the
\* cached token without having made a token request.
C14_Witness ==
    \E w \in Workers :
        /\ pc[w] = "fm_retry"
        /\ loc[w].authHeader = ChalBasic
        /\ loc[w].ntok = 0
        /\ loc[w].tok # Empty
        /\ token[PoolClient] = loc[w].tok

\* the concatenation of the sequences of a sequence
RECURSIVE Flatten(_)
Flatten(seqs) == IF seqs = <<>> THEN <<>> ELSE Head(seqs) \o Flatten(Tail(seqs))

\* C15: a listing that returns without error and was never answered 401 made
\* exactly one request per page and returns the pages' tag arrays concatenated
\* in page order.
C15_ListingConcatenatesPages ==
    (/\ pc[ListThread] = "ft_done"
     /\ msg.type = "tagsMsg"
     /\ msg.err = Nil
     /\ loc[ListThread].n401 = 0) =>
        /\ loc[ListThread].reqs = Len(loc[ListThread].pages)
        /\ msg.tags = Flatten(loc[ListThread].pages)

\* C15 witness: a listing of two non-empty pages returned, never challenged.
C15_Witness ==
    /\ pc[ListThread] = "ft_done"
    /\ msg.err = Nil
    /\ loc[ListThread].n401 = 0
    /\ loc[ListThread].reqs = 2
    /\ Len(loc[ListThread].pages) = 2
    /\ loc[ListThread].pages[1] # <<>>
    /\ loc[ListThread].pages[2] = <<"t2">>

\* the listing has ended on a page that failed: its last response is a
\* transport error, a status other than 200 (the 401 of a failed token
\* acquisition included) or a body that does not decode
ListingFailed ==
    /\ pc[ListThread] = "ft_done"
    /\ loc[ListThread].reqs > 0
    /\ ~(loc[ListThread].resp.status = 200 /\ loc[ListThread].resp.bodyOK)

\* C16: a listing that ends on a failed page returns an error and no tags at
\* all, whatever earlier pages brought; a further page is requested only after
\* a page that decoded, and nothing is requested once the listing has failed.
C16_FailureDiscardsTags ==
    /\ [][(pc[ListThread] # "ft_done" /\ ListingFailed') =>
              msg' = tagsMsg(<<>>, Error)]_vars
    /\ [](pc[ListThread] = "tp_lock" /\ loc[ListThread].reqs > 0 =>
              /\ loc[ListThread].resp.status = 200
              /\ loc[ListThread].resp.bodyOK
              /\ loc[ListThread].err = Nil)
    /\ [][ListingFailed =>
              /\ ListingFailed'
              /\ loc'[ListThread].reqs = loc[ListThread].reqs
              /\ loc'[ListThread].ntok = loc[ListThread].ntok]_vars

\* C16 witness: the second page failed after the first one brought tags.
C16_Witness ==
    /\ ListingFailed
    /\ Len(loc[ListThread].pages) = 1
    /\ loc[ListThread].allTags # <<>>
    /\ msg = tagsMsg(<<>>, Error)

\* ------------------------------------------------- the parsers on their own

\* the longest image argument, in symbols, parseImageReference is called with
MaxImageLen == 3

\* pieces an image argument is put together from: the registries the code
\* knows, a host with a port, a name, and the separator
ImageSymbols == {"docker.io", "ghcr.io", "quay.io", "localhost:5000", "nginx", "/"}

\* every image argument of at most MaxImageLen pieces, the empty one included
ImageInputs == UNION {[1..n -> ImageSymbols] : n \in 0..MaxImageLen}

\* the forms a link target takes in a Link header: in angle brackets, with
\* the closing bracket missing, with no brackets
LinkTargetForms(target) ==
    {<<"<">> \o target \o <<">">>, <<"<">> \o target, target}

\* the parameters that follow a link target
LinkParams ==
    {Empty,
     <<";", " ", "rel", "=", "\"", "next", "\"">>,
     <<";", "rel", "=", "\"", "next", "\"">>,
     <<";", " ", "rel", "=", "\"", "prev", "\"">>,
     <<";", " ", "rel", "=", "next">>,
     <<";", " ", "title", "=", "\"", "x", "\"", ";", " ", "rel", "=", "\"", "next", "\"">>,
     <<";", " ", "x-", "rel", "=", "\"", "next", "\"">>}

\* one link of a Link header
LinkValues(target) ==
    {form \o params : form \in LinkTargetForms(target), params \in LinkParams}

TargetA == <<"/", "v2", "/", "repo", "/", "tags", "/", "list?last=a">>
TargetB == <<"/", "v2", "/", "repo", "/", "tags", "/", "list?last=b">>

\* Link headers parseLinkHeader is called with: none, one link, two links
LinkHeaders ==
    {Empty} \cup LinkValues(TargetA)
    \cup {a \o <<",", " ">> \o b : a \in LinkValues(TargetA), b \in LinkValues(TargetB)}

\* everything but the call of a parser
runVars ==
    <<token, tokenMutex, pc, loc, fd, closer, wg, jobs, jobsClosed, resultsChan,
      resultsClosed, resultsCap, ctxDone, m, cmd, msg, quit, processed, testDone,
      sentCount, expected, panicked, unpulledAtCancel, after, authed, tagLimit,
      exitStatus, tokenGets, endless>>

\* got := parseLinkHeader(tt.input)
CallParseLinkHeader ==
    /\ call.fn = "parseLinkHeader"
    /\ ~call.done
    /\ call' = [call EXCEPT !.next = parseLinkHeader(call.arg), !.done = TRUE]
    /\ UNCHANGED runVars

\* gotURL, gotRepo, err := parseImageReference(tt.input)
CallParseImageReference ==
    /\ call.fn = "parseImageReference"
    /\ ~call.done
    /\ call' = [call EXCEPT !.ref = parseImageReference(call.arg), !.done = TRUE]
    /\ UNCHANGED runVars

\* token, err := client.getBearerToken(authHeader, repository), up to the
\* token request
CallGetBearerToken ==
    /\ call.fn = "getBearerToken"
    /\ ~call.done
    /\ call' = [call EXCEPT !.chal = ParseChallenge(call.arg, call.repository),
                            !.done = TRUE]
    /\ UNCHANGED runVars

\* the table-driven tests of the parsers: one input, one call
ParseInit ==
    /\ InitCommon
    /\ endless = FALSE
    /\ tokenGets = NoTokenGets
    /\ tagLimit = MaxTags
    /\ m = initialModel(Empty, <<"unused">>, NumWorkers)
    /\ pc = [t \in Threads |-> IF t = ListThread THEN "idle" ELSE "unspawned"]
    /\ fd = FdIdle
    /\ resultsCap = 0
    /\ cmd = "none"
    /\ \/ \E h \in LinkHeaders :
            call = [NoCall EXCEPT !.fn = "parseLinkHeader", !.arg = h]
       \/ \E image \in ImageInputs :
            call = [NoCall EXCEPT !.fn = "parseImageReference", !.arg = image]
       \/ \* a challenge names the realm, a service or none, a scope or none (an
          \* empty text stands for a parameter that is left out), with "," or
          \* ", " between the parameters; the header is written key="value"
          LET Quoted(key, value) == <<key, "=", "\"">> \o value \o <<"\"">>
              ChallengeHeader(form) ==
                  <<"Bearer", " ">> \o Quoted("realm", form.realm)
                  \o (IF form.service = Empty THEN Empty
                      ELSE form.sep \o Quoted("service", form.service))
                  \o (IF form.scope = Empty THEN Empty
                      ELSE form.sep \o Quoted("scope", form.scope))
          IN  \E form \in [realm   : {<<"https:", "/", "/", "auth.example", "/", "token">>},
                           service : {Empty, <<"registry">>},
                           scope   : {Empty,
                                      <<"repository:", "owner", "/", "repo", ":pull">>,
                                      <<"repository:", "owner", "/", "repo", ":pull",
                                        ",", "push">>},
                           sep     : {<<",">>, <<",", " ">>}],
                     repo \in Repositories :
                   call = [NoCall EXCEPT !.fn = "getBearerToken", !.form = form,
                                         !.arg = ChallengeHeader(form),
                                         !.repository = repo]

ParseNext == CallParseLinkHeader \/ CallParseImageReference \/ CallGetBearerToken

ParseSpec == ParseInit /\ [][ParseNext]_vars

\* a Link header read link by link: the links are separated by ',', a link is
\* a target followed by ';'-separated parameters, and its target is the text
\* between '<' and '>'
LinkOf(value) ==
    LET fields == Split(value, ";")
        target == TrimSpace(fields[1])
    IN  [enclosed |-> /\ Len(target) >= 2
                      /\ HasPrefix(target, Sym("<"))
                      /\ HasSuffix(target, Sym(">")),
         target   |-> SubSeq(target, 2, Len(target) - 1),
         next     |-> \E k \in 2..Len(fields) : TrimSpace(fields[k]) = RelNext]

RECURSIVE FirstNext(_)
\* the target of the first link marked rel="next" whose target is in angle
\* brackets, or the empty text
FirstNext(values) ==
    IF values = <<>> THEN Empty
    ELSE LET l == LinkOf(Head(values))
         IN  IF l.enclosed /\ l.next THEN l.target ELSE FirstNext(Tail(values))

NextTarget(header) == FirstNext(Split(header, ","))

\* C17: parseLinkHeader returns the target of the link that carries
\* rel="next", also when the header lists several links, and the empty text
\* when no link has an exact rel="next" parameter and a target in angle
\* brackets.
C17_NextLinkTarget ==
    (call.fn = "parseLinkHeader" /\ call.done) => call.next = NextTarget(call.arg)

\* the rule table of reference resolution, read off an image argument: the
\* first segment is what precedes the first '/', the remainder what follows it
RuleTable(image) ==
    LET i     == Index(image, Sym("/"))
        first == SubSeq(image, 1, i - 1)
        rest  == SubSeq(image, i + 1, Len(image))
        https == <<"https:", "/", "/">>
    IN  IF i = 0
        THEN [registryURL |-> https \o <<"registry-1.docker.io">>,
              repository  |-> <<"library", "/">> \o image]
        ELSE IF first = <<"docker.io">>
        THEN [registryURL |-> https \o <<"registry-1.docker.io">>,
              repository  |-> IF Index(rest, Sym("/")) = 0
                              THEN <<"library", "/">> \o rest ELSE rest]
        ELSE IF first \in {<<"ghcr.io">>, <<"quay.io">>}
        THEN [registryURL |-> https \o first, repository |-> rest]
        ELSE [registryURL |-> https \o first, repository |-> rest]

\* C18: parseImageReference never returns an error, and its base URL and
\* repository are those of the rule table, for every image argument.
C18_TotalRuleTable ==
    (call.fn = "parseImageReference" /\ call.done) =>
        /\ call.ref.err = Nil
        /\ call.ref.registryURL = RuleTable(call.arg).registryURL
        /\ call.ref.repository = RuleTable(call.arg).repository

\* C18 witness: docker.io/nginx resolved to library/nginx without error.
C18_Witness ==
    /\ call.fn = "parseImageReference"
    /\ call.done
    /\ call.arg = <<"docker.io", "/", "nginx">>
    /\ call.ref.repository = <<"library", "/", "nginx">>
    /\ call.ref.err = Nil

\* C19: the repository parseImageReference returns is never empty and neither
\* starts nor ends with '/'.
C19_RepositoryWellFormed ==
    (call.fn = "parseImageReference" /\ call.done) =>
        /\ call.ref.repository # Empty
        /\ Head(call.ref.repository) # "/"
        /\ call.ref.repository[Len(call.ref.repository)] # "/"

\* C20: Update on a tagsMsg that carries an error records the error, sets done
\* and quits without issuing a command; from then on the error message is
\* gone, no worker pool was started and no worker has made a request.  A
\* listing that failed never has a pool, whether or not Update saw the message.
C20_ListingFailureFatal ==
    /\ [][(msg.type = "tagsMsg" /\ msg.err # Nil /\ msg' # msg) =>
              /\ m' = [m EXCEPT !.err = msg.err, !.done = TRUE]
              /\ quit'
              /\ cmd' = cmd
              /\ msg' = NoMsg]_vars
    /\ [](m.err # Nil =>
              /\ m.done
              /\ quit
              /\ msg = NoMsg
              /\ cmd # "startWorkerPool"
              /\ ~m.hasChan)
    /\ [](m.err # Nil \/ loc[ListThread].err # Nil =>
              /\ fd = FdIdle
              /\ closer = "none"
              /\ \A w \in Workers : pc[w] = "unspawned" /\ loc[w].reqs = 0
              /\ \A tg \in TagNames : sentCount[tg] = 0)

\* C20 witness: the listing failed on its second page, Update has recorded
\* the error and quit.
C20_Witness ==
    /\ m.err # Nil
    /\ m.done
    /\ quit
    /\ msg = NoMsg
    /\ loc[ListThread].err # Nil
    /\ Len(loc[ListThread].pages) = 1

\* C21: every per-tag result Update receives, with or without an error, adds
\* one to current; its tag is appended to matchingTags exactly when it has no
\* error and its digest is the target digest; the model is done and quits in
\* the step in which current reaches total; and always
\* 0 <= len(matchingTags) <= current <= total.
C21_ResultsCounted ==
    /\ [][(msg.type = "checkMsg" /\ msg' # msg) =>
              /\ m'.current = m.current + 1
              /\ m'.matchingTags =
                     IF msg.err = Nil /\ msg.digest = m.targetDigest
                     THEN m.matchingTags \o <<msg.tag>> ELSE m.matchingTags
              /\ m'.done = (m'.current >= m.total)
              /\ quit' = m'.done]_vars
    /\ [](/\ 0 <= Len(m.matchingTags)
          /\ Len(m.matchingTags) <= m.current
          /\ m.current <= m.total
          /\ (m.current > 0 /\ m.current = m.total) => m.done)

\* C21 witness: three results were counted, one of them a match and one of
\* them not.
C21_Witness ==
    /\ m.done
    /\ m.total = 3
    /\ m.current = 3
    /\ Len(m.matchingTags) = 1
    /\ \E tg \in TagNames :
         sentCount[tg] = 1 /\ \A k \in 1..Len(expected) : expected[k] # tg

\* ------------------------------------------------------------ the process

\* main, lines 617-622: p.Run() returns once Update has returned tea.Quit, or
\* with an error of the terminal program; main exits with 1 on that error
\* and otherwise returns, which ends the process with status 0
MainExit ==
    /\ exitStatus = <<>>
    /\ quit
    /\ \E runErr \in {Nil, Error} :
         exitStatus' = IF runErr # Nil THEN <<1>> ELSE <<0>>
    /\ UNCHANGED <<tagLimit, endless, call, tokenGets, clientVars, pc, loc, poolVars, resultsCap,
                   ctxDone, uiVars, testVars, histVars>>

\* the program until its process ends: nothing runs after the exit
MainNext == (exitStatus = <<>> /\ Next) \/ MainExit

MainSpec == InitWith(MaxLiveTags) /\ [][MainNext]_vars

\* C22: the process exits with 0 only if a matching tag was found and no fatal
\* error occurred, and with 1 when no tag matched or the listing failed.
C22_ExitCode ==
    exitStatus # <<>> =>
        (exitStatus = <<0>>) = (Len(m.matchingTags) >= 1 /\ m.err = Nil)

\* ------------------------------------------------------- run with -workers 1

\* tag-finder -workers 1 <image> <digest>: one worker, a result channel of
\* capacity 2
OneWorkerInit ==
    /\ InitCommon
    /\ endless = FALSE
    /\ tokenGets = NoTokenGets
    /\ tagLimit = MaxOneWorkerTags
    /\ call = NoCall
    /\ m = initialModel(<<"ghcr.io", "/", "owner", "/", "repo">>, DigestA, 1)
    /\ pc = [t \in Threads |-> IF t = ListThread THEN "fetchTags" ELSE "unspawned"]
    /\ fd = FdIdle
    /\ resultsCap = 0
    /\ cmd = "fetchTags"

FairOneWorkerSpec ==
    /\ OneWorkerInit
    /\ [][Next]_vars
    /\ WF_vars(ListStep)
    /\ WF_vars(UpdateTagsMsg)
    /\ WF_vars(startWorkerPool)
    /\ PoolFairness
    /\ WF_vars(waitForNextResult)
    /\ WF_vars(UpdateCheckMsg)

\* C23: once the context is cancelled and FetchDigests has been started, every
\* worker eventually exits and the result stream is closed, also when the
\* consumer no longer receives.
C23_WorkersExitAfterCancel ==
    (ctxDone /\ fd # FdIdle) ~>
        (/\ resultsClosed
         /\ \A w \in Workers : pc[w] \in {"unspawned", "exited"})

\* a challenge whose scheme is not Bearer or that names no realm
MalformedChallenge(authHeader) ==
    \/ ~HasPrefix(authHeader, <<"Bearer", " ">>)
    \/ ~Contains(authHeader, <<"realm", "=">>)

\* C24: getBearerToken called with an empty cache and a challenge that is not
\* Bearer or has no realm returns an error to its caller, leaves the cache
\* empty and makes no request: a token request is under way only for a Bearer
\* challenge with a realm.
C24_MalformedChallengeFails ==
    /\ [][\A t \in Threads :
              (/\ pc[t] \in {"gb_lock", "gb_cs"}
               /\ pc'[t] \notin {"gb_lock", "gb_cs"}
               /\ token[ClientOf(t)] = Empty
               /\ MalformedChallenge(loc[t].authHeader)) =>
                  /\ token' = token
                  /\ pc'[t] = (IF t = ListThread THEN "ft_done" ELSE "send")
                  /\ loc'[t].err = Error
                  /\ loc'[t].ntok = 0]_vars
    /\ [](\A t \in Threads :
              pc[t] \in {"gb_do", "gb_lock2", "gb_cs2"} =>
                  ~MalformedChallenge(loc[t].authHeader))

\* C24 witness: the listing was challenged without a realm and has failed with
\* no token request and an empty cache.
C24_Witness ==
    /\ pc[ListThread] = "ft_done"
    /\ loc[ListThread].authHeader = ChalNoRealm
    /\ loc[ListThread].err = Error
    /\ loc[ListThread].ntok = 0
    /\ loc[ListThread].reqs = 1
    /\ token[ClientOf(ListThread)] = Empty
    /\ msg = tagsMsg(<<>>, Error)

\* C25 as claimed: a fetch whose first request carried the cached token makes
\* no token request, and its retry carries that same token.
C25_SameTokenNoRequest ==
    \A t \in Threads :
        loc[t].auth1 # Empty =>
            /\ loc[t].ntok = 0
            /\ pc[t] \notin {"gb_do", "gb_lock2", "gb_cs2"}
            /\ pc[t] \in {"tp_retry", "fm_retry"} => loc[t].auth = loc[t].auth1

\* C25: a fetch whose first request carried a cached token and was answered
\* 401 with a challenge sends its one retry with the token that is in the
\* cache at getBearerToken's check, with no token request and the cache left
\* as it is; only when a concurrent store has emptied the cache in between
\* does it go on to the challenge and a token request.  The fetch fails when
\* the retry is not answered 200, and the retry leaves the cache unchanged.
C25_ExpiredTokenRetry ==
    /\ [][\A t \in Threads :
              (/\ pc[t] \in {"gb_lock", "gb_cs"}
               /\ pc'[t] \notin {"gb_lock", "gb_cs"}
               /\ loc[t].auth1 # Empty
               /\ token[ClientOf(t)] = Empty) =>
                  /\ token' = token
                  /\ \/ pc'[t] = "gb_do" /\ loc'[t].ntok = 1
                     \/ pc'[t] \in {"send", "ft_done"} /\ loc'[t].err = Error]_vars
    /\ [][\A t \in Threads :
              (/\ pc[t] \in {"gb_lock", "gb_cs"}
               /\ pc'[t] \notin {"gb_lock", "gb_cs"}
               /\ loc[t].auth1 # Empty
               /\ token[ClientOf(t)] # Empty) =>
                  /\ token' = token
                  /\ pc'[t] \in {"tp_retry", "fm_retry"}
                  /\ loc'[t].ntok = 0
                  /\ loc'[t].nreq = 2
                  /\ loc'[t].auth = Bearer(token[ClientOf(t)])]_vars
    /\ [][\A w \in Workers :
              (pc[w] = "fm_retry" /\ loc[w].auth1 # Empty /\ pc'[w] # "fm_retry") =>
                  /\ pc'[w] = "send"
                  /\ token' = token
                  /\ loc'[w].served = Empty => loc'[w].err = Error]_vars

\* C25 witness: a worker sent the cached token, was answered 401 and retries
\* with the same token, no token request made.
C25_Witness ==
    \E w \in Workers :
        /\ pc[w] = "fm_retry"
        /\ loc[w].auth1 = Bearer(TokA)
        /\ loc[w].first.status = 401
        /\ loc[w].auth = loc[w].auth1
        /\ loc[w].ntok = 0
        /\ loc[w].nreq = 2
        /\ token[PoolClient] = TokA

\* --------------------------------------- FetchDigests, token requests counted

\* FetchDigests called as the tests call it, with the history of its token
\* requests kept
CountInit ==
    /\ InitCommon
    /\ endless = FALSE
    /\ tokenGets = CountTokenGets
    /\ tagLimit = MaxTags
    /\ call = NoCall
    /\ m = initialModel(Empty, <<"unused">>, NumWorkers)
    /\ pc = [t \in Threads |-> IF t = ListThread THEN "idle" ELSE "unspawned"]
    /\ \E tags \in TagLists(MaxTags) :
         fd = FdStart(TestRegistry, TestRepository, tags)
    /\ resultsCap = PoolCap
    /\ cmd = "none"

CountSpec == CountInit /\ [][PoolNext]_vars

\* C26: a token request is issued only by a cache check that found the cache
\* empty, and as long as the token endpoint has answered every request with a
\* non-empty token, a FetchDigests run has issued at most as many token
\* requests as it has workers.
C26_TokenRequestsBounded ==
    /\ [][tokenGets'.n # tokenGets.n =>
              /\ tokenGets'.n = tokenGets.n + 1
              /\ token[PoolClient] = Empty]_vars
    /\ [](~tokenGets.noToken => tokenGets.n <= NumWorkers)

\* C26 witness: each worker has requested a token once, every token was
\* non-empty, and more tags than workers were checked.
C26_Witness ==
    /\ tokenGets.n = NumWorkers
    /\ ~tokenGets.noToken
    /\ token[PoolClient] # Empty
    /\ Len(fd.tags) > NumWorkers
    /\ SentTotal = Len(fd.tags)
    /\ resultsClosed

\* ------------------------------------------- the token mutex, step by step

\* rc.tokenMutex.Lock() as a step of its own: the goroutine waits at the call
\* until the mutex is free
LockStep ==
    \/ TpLock
    \/ \E t \in Threads : GbLock(t) \/ GbLock2(t)
    \/ \E w \in Workers : FmLock(w)

LockNext == Next \/ LockStep

\* a goroutine waiting in Lock() gets the mutex once it is free
FairLockSpec ==
    /\ InitWith(MaxLiveTags)
    /\ [][LockNext]_vars
    /\ WF_vars(ListStep)
    /\ WF_vars(UpdateTagsMsg)
    /\ WF_vars(startWorkerPool)
    /\ PoolFairness
    /\ WF_vars(waitForNextResult)
    /\ WF_vars(UpdateCheckMsg)
    /\ WF_vars(LockStep)

\* goroutine t holds the mutex of its client
Held(t) == tokenMutex[ClientOf(t)] = t

\* between Lock() and Unlock()
CriticalPcs == {"gb_cs", "gb_cs2", "fm_cs", "tp_cs"}

\* waiting in, or about to call, Lock()
LockPcs == {"gb_lock", "gb_lock2", "fm_lock", "tp_lock"}

\* an HTTP request of the goroutine is in flight
RequestPcs == {"tp_do", "tp_retry", "fm_do", "fm_retry", "gb_do"}

\* C27: the token field changes only in a step of a goroutine that holds the
\* mutex and releases it; a goroutine holds the mutex exactly between Lock()
\* and Unlock(), so never two at a time and never while one of its requests is
\* in flight; a held mutex is released, and a goroutine at Lock() gets past it.
C27_TokenMutex ==
    /\ [][\A c \in Clients :
              token'[c] # token[c] =>
                  \/ \E t \in Threads :
                        /\ ClientOf(t) = c
                        /\ \/ Held(t) /\ pc[t] = "gb_cs2"
                           \/ tokenMutex[c] = Unlocked /\ pc[t] = "gb_lock2"
                        /\ pc'[t] \notin CriticalPcs \cup LockPcs
                        /\ tokenMutex'[c] = Unlocked
                  \/ c = ListClient /\ cmd = "startWorkerPool"]_vars
    /\ [](\A t \in Threads : Held(t) <=> pc[t] \in CriticalPcs)
    /\ [](\A t1, t2 \in Threads :
              (t1 # t2 /\ ClientOf(t1) = ClientOf(t2)) =>
                  ~(pc[t1] \in CriticalPcs /\ pc[t2] \in CriticalPcs))
    /\ [](\A t \in Threads : pc[t] \in RequestPcs => ~Held(t))
    /\ \A t \in Threads : Held(t) ~> ~Held(t)
    /\ \A t \in Threads : (pc[t] \in LockPcs) ~> (pc[t] \notin LockPcs)

\* C27 witness: a worker is about to store its token under the mutex while
\* the other worker waits in Lock() to store its own.
C27_Witness ==
    \E w1, w2 \in Workers :
        /\ w1 # w2
        /\ Held(w1)
        /\ pc[w1] = "gb_cs2"
        /\ pc[w2] = "gb_lock2"
        /\ loc[w1].tok # Empty

\* ----------------------------------------- FetchDigests, any worker count

\* FetchDigests called on a client made with NewRegistryClient(n), for every
\* n from 1 up to NumWorkers
AnyWorkersInit ==
    /\ InitCommon
    /\ endless = FALSE
    /\ tokenGets = NoTokenGets
    /\ tagLimit = MaxTags
    /\ call = NoCall
    /\ \E n \in 1..NumWorkers : m = initialModel(Empty, <<"unused">>, n)
    /\ pc = [t \in Threads |-> IF t = ListThread THEN "idle" ELSE "unspawned"]
    /\ \E tags \in TagLists(MaxTags) :
         fd = FdStart(TestRegistry, TestRepository, tags)
    /\ resultsCap = PoolCap
    /\ cmd = "none"

AnyWorkersSpec == AnyWorkersInit /\ [][PoolNext]_vars

\* the worker goroutines started so far
Spawned == {w \in Workers : pc[w] # "unspawned"}

\* C28: FetchDigests starts rc.workers worker goroutines, all of them before
\* it enqueues, and none afterwards: a worker that has exited stays exited;
\* never more than rc.workers manifest fetches are in flight.
C28_ExactlyNWorkers ==
    /\ [](Cardinality(Spawned) <= m.workers)
    /\ [](fd.pc \in {"enqueue", "returned"} => Cardinality(Spawned) = m.workers)
    /\ [](Cardinality({w \in Workers : InFlight(w)}) <= m.workers)
    /\ [][\A w \in Workers :
              /\ (pc[w] = "unspawned" /\ pc'[w] # "unspawned") =>
                     fd.pc = "spawn" /\ pc'[w] = "range" /\ wg' = wg + 1
              /\ pc[w] # "unspawned" => pc'[w] # "unspawned"
              /\ pc[w] \in {"exited", "panic"} => pc'[w] = pc[w]]_vars

\* C28 witness: a client with one worker has a fetch in flight and tags
\* waiting in the queue, and no second worker was started.
C28_Witness ==
    /\ m.workers = 1
    /\ fd.pc = "returned"
    /\ InFlight(1)
    /\ pc[2] = "unspawned"
    /\ Len(jobs) = 2

\* the tags FetchDigests has put on the work queue so far
Enqueued ==
    IF fd.pc = "enqueue" THEN fd.i ELSE IF fd.pc = "returned" THEN Len(fd.tags) ELSE 0

\* C29: the work queue always holds, in input order, the enqueued tags not yet
\* pulled; the send of the next tag is never blocked; the queue is closed once,
\* after the last tag, and nothing is enqueued afterwards; a pull takes the
\* head of the queue and hands it to one worker; and FetchDigests can close the
\* queue and return whatever has been sent, received or closed on the result
\* stream.
C29_EnqueueAllThenClose ==
    /\ [](jobs = SubSeq(fd.tags, Enqueued - Len(jobs) + 1, Enqueued))
    /\ []((fd.pc = "enqueue" /\ fd.i < Len(fd.tags)) => ENABLED FdEnqueue)
    /\ []((fd.pc = "enqueue" /\ fd.i = Len(fd.tags)) => ENABLED FdClose)
    /\ [][Len(jobs') > Len(jobs) =>
              /\ fd.pc = "enqueue"
              /\ ~jobsClosed
              /\ jobs' = Append(jobs, fd.tags[fd.i + 1])
              /\ fd'.i = fd.i + 1]_vars
    /\ [][jobsClosed' # jobsClosed =>
              /\ jobsClosed'
              /\ fd.pc = "enqueue"
              /\ fd.i = Len(fd.tags)
              /\ fd'.pc = "returned"]_vars
    /\ [][Len(jobs') < Len(jobs) =>
              /\ jobs' = Tail(jobs)
              /\ \E w \in Workers :
                    /\ pc[w] = "range"
                    /\ pc'[w] = "select"
                    /\ loc'[w].tag = Head(jobs)
                    /\ \A v \in Workers \ {w} : pc'[v] = pc[v] /\ loc'[v] = loc[v]]_vars

\* C29 witness: FetchDigests has returned with every tag in the queue, before
\* any worker pulled one and with the result stream open and untouched.
C29_Witness ==
    /\ fd.pc = "returned"
    /\ jobsClosed
    /\ jobs = fd.tags
    /\ Len(jobs) = MaxTags
    /\ \A w \in Workers : pc[w] = "range"
    /\ resultsChan = <<>>
    /\ processed = 0
    /\ ~resultsClosed

\* ------------------------------------------------- listing without a ceiling

\* a run of the listing against a registry that may be endless
EndlessInit ==
    /\ InitCommon
    /\ endless \in BOOLEAN
    /\ tokenGets = NoTokenGets
    /\ tagLimit = MaxTags
    /\ call = NoCall
    /\ \E image \in Images, digest \in DigestArgs :
         m = initialModel(StripScheme(image), NormalizeDigest(digest), NumWorkers)
    /\ pc = [t \in Threads |-> IF t = ListThread THEN "fetchTags" ELSE "unspawned"]
    /\ fd = FdIdle
    /\ resultsCap = 0
    /\ cmd = "fetchTags"

EndlessSpec == EndlessInit /\ [][ListStep]_vars

\* the listing loop is running: fetchTagsList has not returned
Listing == pc[ListThread] \notin {"fetchTags", "ft_done"}

\* C30: fetchTagsList returns exactly when a page fails or is answered 200
\* without a next link, and nothing else bounds the loop.  A step that ends
\* the listing either reports a failure without tags or follows a decoded 200
\* page in whose Link header parseLinkHeader found no next page, and then it
\* returns the pages' tags; a decoded 200 page with a next link leaves the
\* loop at its next request, with a non-empty URL, however many pages were
\* fetched before; while the loop runs every page requested before the one
\* under way was decoded, and the next request can always be sent; against a
\* registry whose every page names a next page the listing ends in a failure
\* or not at all, so it never returns tags.
C30_NoPageCeiling ==
    /\ [][(Listing /\ pc'[ListThread] = "ft_done") =>
              \/ /\ loc'[ListThread].err # Nil
                 /\ msg' = tagsMsg(<<>>, loc'[ListThread].err)
                 /\ ~(loc'[ListThread].resp.status = 200 /\ loc'[ListThread].resp.bodyOK)
                 /\ loc'[ListThread].pages = loc[ListThread].pages
              \/ /\ loc'[ListThread].resp.status = 200
                 /\ loc'[ListThread].resp.bodyOK
                 /\ parseLinkHeader(loc'[ListThread].resp.link) = Empty
                 /\ loc'[ListThread].pages =
                        Append(loc[ListThread].pages, loc'[ListThread].resp.tags)
                 /\ msg' = tagsMsg(Flatten(loc'[ListThread].pages), Nil)]_vars
    /\ [][loc'[ListThread].pages # loc[ListThread].pages =>
              /\ loc'[ListThread].resp.status = 200
              /\ loc'[ListThread].resp.bodyOK
              /\ IF parseLinkHeader(loc'[ListThread].resp.link) # Empty
                 THEN /\ pc'[ListThread] = "tp_lock"
                      /\ loc'[ListThread].url # Empty
                      /\ msg' = msg
                 ELSE pc'[ListThread] = "ft_done"]_vars
    /\ [][(pc[ListThread] \in {"tp_do", "tp_retry"} /\ pc'[ListThread] # pc[ListThread]
              /\ loc'[ListThread].pages = loc[ListThread].pages) =>
              \/ pc'[ListThread] = "ft_done" /\ loc'[ListThread].err # Nil
              \/ /\ pc[ListThread] = "tp_do"
                 /\ pc'[ListThread] = "gb_lock"
                 /\ loc'[ListThread].resp.status = 401]_vars
    /\ [](Listing =>
              /\ loc[ListThread].err = Nil
              /\ msg = NoMsg
              /\ Len(loc[ListThread].pages) =
                     IF pc[ListThread] = "tp_lock"
                     THEN loc[ListThread].page ELSE loc[ListThread].page - 1)
    /\ []((pc[ListThread] = "tp_lock"
              /\ (endless => loc[ListThread].page < MaxLoopPages)) => ENABLED TpSend)
    /\ []((endless /\ pc[ListThread] = "ft_done") =>
              /\ msg.tags = <<>>
              /\ msg.err # Nil
              /\ loc[ListThread].err # Nil)

\* C30 witness: MaxLoopPages pages were fetched and decoded, twice as many as
\* a registry that is not endless serves, each named the same next page, and
\* the loop is about to request that page once more; nothing was returned.
C30_Witness ==
    /\ endless
    /\ pc[ListThread] = "tp_lock"
    /\ loc[ListThread].page = MaxLoopPages
    /\ Len(loc[ListThread].pages) = MaxLoopPages
    /\ MaxLoopPages > MaxPages
    /\ Len(loc[ListThread].allTags) = MaxTags
    /\ loc[ListThread].url = NextURL(loc[ListThread].url, LinkNext)
    /\ loc[ListThread].n401 > 0
    /\ msg = NoMsg

\* ------------------------------------------------------ the token request URL

\* C31: the URL getBearerToken requests a token from is the challenge's realm,
\* then the challenge's service if it names one, then as scope the
\* challenge's scope if it names one and repository:<repository>:pull if not.
C31_TokenURL ==
    (call.fn = "getBearerToken" /\ call.done) =>
        /\ call.chal.err = Nil
        /\ call.chal.tokenURL =
              call.form.realm \o <<"?">>
              \o (IF call.form.service = Empty THEN Empty
                  ELSE <<"service", "=">> \o call.form.service \o <<"&">>)
              \o <<"scope", "=">>
              \o (IF call.form.scope = Empty
                  THEN <<"repository:">> \o call.repository \o <<":pull">>
                  ELSE call.form.scope)

\* ------------------------------------------------ 401 without a challenge

\* C32: a 401 without a Www-Authenticate header ends the fetch with an error
\* at once.  The step that takes the first response of a page or manifest
\* fetch either starts the token call, and then the response is a 401 with
\* a header, or ends the fetch with the token cache as it was; ended by a
\* 401 the page fetch reports an error with no tags after its one request
\* and no token request, and a manifest fetch reports success only for a 200
\* that carried a digest.  A goroutine is in a token call or a retry only
\* after a 401 that carried a header.
C32_BareUnauthorizedFails ==
    /\ [][\A t \in Threads :
              (pc[t] \in {"tp_do", "fm_do"} /\ pc'[t] # pc[t]) =>
                 \/ /\ pc'[t] = "gb_lock"
                    /\ loc'[t].resp.status = 401
                    /\ loc'[t].resp.wwwAuth # Empty
                    /\ loc'[t].authHeader = loc'[t].resp.wwwAuth
                    /\ token' = token
                 \/ /\ pc'[t] \in {"send", "ft_done", "tp_lock"}
                    /\ token' = token
                    /\ (t = ListThread /\ loc'[t].resp.status = 401) =>
                          /\ loc'[t].resp.wwwAuth = Empty
                          /\ pc'[t] = "ft_done"
                          /\ loc'[t].err # Nil
                          /\ msg' = tagsMsg(<<>>, loc'[t].err)
                          /\ loc'[t].nreq = 1
                          /\ loc'[t].ntok = 0
                          /\ loc'[t].reqs = loc[t].reqs
                    /\ (t # ListThread /\ loc'[t].err = Nil) =>
                          /\ loc'[t].served # Empty
                          /\ loc'[t].digest = loc'[t].served]_vars
    /\ [](\A t \in Threads :
              pc[t] \in {"gb_lock", "gb_cs", "gb_do", "gb_lock2", "gb_cs2",
                         "tp_retry", "fm_retry"} =>
                 /\ loc[t].first.status = 401
                 /\ loc[t].first.wwwAuth # Empty
                 /\ loc[t].authHeader # Empty)
    /\ [](\A t \in Threads :
              (pc[t] = "ft_done" /\ loc[t].resp.status = 401
                 /\ loc[t].resp.wwwAuth = Empty /\ loc[t].nreq = 1) =>
                 loc[t].err # Nil /\ loc[t].ntok = 0)

\* C32 witness: the listing got a token for its first page and sent its
\* second page request with it; the registry answered 401 without a header,
\* and the listing has failed after that one request with the token still
\* cached.
C32_Witness ==
    /\ pc[ListThread] = "ft_done"
    /\ loc[ListThread].resp.status = 401
    /\ loc[ListThread].resp.wwwAuth = Empty
    /\ loc[ListThread].nreq = 1
    /\ loc[ListThread].ntok = 0
    /\ loc[ListThread].reqs = 3
    /\ Len(loc[ListThread].pages) = 1
    /\ loc[ListThread].err # Nil
    /\ token[ClientOf(ListThread)] # Empty

\* ------------------------------------------------------- one client per phase

\* a UI run in which the token requests are counted
UiCountInit ==
    /\ InitCommon
    /\ endless = FALSE
    /\ tokenGets = CountTokenGets
    /\ tagLimit = MaxLiveTags
    /\ call = NoCall
    /\ \E image \in Images, digest \in DigestArgs :
         m = initialModel(StripScheme(image), NormalizeDigest(digest), NumWorkers)
    /\ pc = [t \in Threads |-> IF t = ListThread THEN "fetchTags" ELSE "unspawned"]
    /\ fd = FdIdle
    /\ resultsCap = 0
    /\ cmd = "fetchTags"

UiCountSpec == UiCountInit /\ [][Next]_vars

\* C33: the listing and the pool have a client each.  startWorkerPool starts
\* the pool on an empty token cache, whatever the listing's client holds; only
\* the listing writes the listing's cache and only workers write the pool's;
\* the first request of a worker carries what the pool's cache holds when it
\* is sent, nothing while that cache is empty; a listing that got past a challenge has made a token request, a
\* pool in which a worker got past a challenge has made one more than the
\* listing, so a run challenged in both phases makes at least two.
C33_ClientPerPhase ==
    /\ [][(fd = FdIdle /\ fd' # FdIdle) =>
              /\ token'[PoolClient] = Empty
              /\ tokenGets'.list = tokenGets.n]_vars
    /\ [][\A c \in Clients :
              (token'[c] # token[c] /\ token'[c] # Empty) =>
                 \E t \in Threads :
                    /\ ClientOf(t) = c
                    /\ pc[t] \in {"gb_lock2", "gb_cs2"}
                    /\ pc'[t] \in {"tp_retry", "fm_retry"}
                    /\ (c = PoolClient) = (t \in Workers)]_vars
    /\ [][\A w \in Workers :
              (pc[w] \in {"fm_lock", "fm_cs"} /\ pc'[w] = "fm_do") =>
                 loc'[w].auth = IF token[PoolClient] = Empty THEN Empty
                                ELSE Bearer(token[PoolClient])]_vars
    /\ []((fd = FdIdle /\ pc[ListThread] \in {"gb_do", "gb_lock2", "gb_cs2", "tp_retry", "fm_retry"}) =>
              tokenGets.n >= 1)
    /\ []((\E w \in Workers : pc[w] \in {"gb_do", "gb_lock2", "gb_cs2", "tp_retry", "fm_retry"}) =>
              tokenGets.n >= tokenGets.list + 1)
    /\ []((/\ tokenGets.list >= 1
           /\ \E w \in Workers : pc[w] \in {"gb_do", "gb_lock2", "gb_cs2", "tp_retry", "fm_retry"}) =>
              tokenGets.n >= 2)

\* C33 witness: the listing was challenged and got a token with one request;
\* the pool started on an empty cache, a worker was challenged in turn, and
\* the second token request of the run is under way.
C33_Witness ==
    /\ tokenGets.list = 1
    /\ tokenGets.n = 2
    /\ ~tokenGets.noToken
    /\ token[PoolClient] = Empty
    /\ \E w \in Workers : pc[w] = "gb_do" /\ loc[w].authHeader = ChalFull

\* ------------------------------------------------------------ the command line

\* digest arguments: with the prefix, without it, empty, the prefix alone,
\* the prefix in capitals, the prefix in the wrong place
DigestInputs ==
    {DigestA, <<"aaaa">>, Empty, <<"sha256:">>, <<"SHA256:", "aaaa">>,
     <<"aaaa", "sha256:">>}

\* main, lines 601-617: the check of -workers, the two normalizations and
\* tea.NewProgram(initialModel(...)), whose Init issues fetchTags
MainStart ==
    /\ call.fn = "main"
    /\ ~call.done
    /\ call' = [call EXCEPT !.done = TRUE]
    /\ IF call.workers < 1
       THEN /\ exitStatus' = <<1>>
            /\ UNCHANGED <<m, cmd, pc>>
       ELSE /\ m' = initialModel(StripScheme(call.arg), NormalizeDigest(call.digest),
                                 call.workers)
            /\ cmd' = "fetchTags"
            /\ pc' = [pc EXCEPT ![ListThread] = "fetchTags"]
            /\ exitStatus' = exitStatus
    /\ UNCHANGED <<tagLimit, endless, tokenGets, clientVars, loc, poolVars, resultsCap,
                   ctxDone, msg, quit, testVars, histVars>>

\* tag-finder -workers <n> <image> <digest>
StartInit ==
    /\ InitCommon
    /\ endless = FALSE
    /\ tokenGets = NoTokenGets
    /\ tagLimit = MaxLiveTags
    /\ \E image \in Images, digest \in DigestInputs, workers \in 0..NumWorkers :
         call = [NoCall EXCEPT !.fn = "main", !.arg = image, !.digest = digest,
                               !.workers = workers]
    /\ m = initialModel(Empty, Empty, 0)
    /\ pc = [t \in Threads |-> IF t = ListThread THEN "idle" ELSE "unspawned"]
    /\ fd = FdIdle
    /\ resultsCap = 0
    /\ cmd = "none"

StartNext == MainStart \/ (call.done /\ MainNext)

StartSpec == StartInit /\ [][StartNext]_vars

\* C34: a listing that succeeds with zero tags makes the model done and quits
\* with no result stream and no worker pool; a listing with at least one tag
\* makes the result stream and starts the pool, once, with total the number
\* of tags; a run started with -workers below 1 exits with status 1 and makes
\* no request.
C34_PoolStartedOnlyForTags ==
    /\ [][(msg.type = "tagsMsg" /\ msg' # msg /\ msg.err = Nil /\ Len(msg.tags) = 0) =>
              /\ m'.done /\ quit'
              /\ m'.total = 0
              /\ ~m'.hasChan /\ resultsCap' = 0
              /\ cmd' # "startWorkerPool"
              /\ fd' = FdIdle]_vars
    /\ [][(msg.type = "tagsMsg" /\ msg' # msg /\ msg.err = Nil /\ Len(msg.tags) > 0) =>
              /\ ~m'.done /\ ~quit'
              /\ m'.tags = msg.tags
              /\ m'.total = Len(msg.tags)
              /\ m'.hasChan /\ resultsCap' = m.workers * 2
              /\ cmd = "fetchTags" /\ cmd' = "startWorkerPool"]_vars
    /\ [][cmd' = "startWorkerPool" => (cmd = "startWorkerPool" \/ cmd = "fetchTags")]_vars
    /\ [][fd # FdIdle => fd' # FdIdle /\ fd'.tags = fd.tags /\ cmd' # "startWorkerPool"]_vars
    /\ [][(fd = FdIdle /\ fd' # FdIdle) =>
              /\ cmd = "startWorkerPool"
              /\ fd'.tags = m.tags
              /\ Len(fd'.tags) = m.total
              /\ m.total > 0]_vars
    /\ []((m.done /\ m.err = Nil /\ m.total = 0) =>
              /\ fd = FdIdle
              /\ ~m.hasChan
              /\ \A w \in Workers : pc[w] = "unspawned")
    /\ []((call.fn = "main" /\ call.workers < 1) =>
              /\ \A t \in Threads :
                    /\ loc[t].nreq = 0 /\ loc[t].ntok = 0 /\ loc[t].reqs = 0
                    /\ pc[t] \in {"idle", "unspawned"}
              /\ fd = FdIdle
              /\ m = initialModel(Empty, Empty, 0))
    /\ []((call.fn = "main" /\ call.done /\ call.workers < 1) => exitStatus = <<1>>)
    /\ []((call.fn = "main" /\ call.done /\ call.workers >= 1) =>
              m.workers = call.workers)

\* C34 witness: with -workers 1 the listing returned two tags, Update made a
\* stream of capacity 2, the pool was started and has its worker running and
\* the first result already counted.
C34_Witness ==
    /\ call.workers = 1
    /\ m.total = MaxLiveTags
    /\ Len(m.tags) = m.total
    /\ m.hasChan
    /\ resultsCap = 2
    /\ fd.pc = "returned"
    /\ fd.tags = m.tags
    /\ m.current = 1
    /\ pc[1] # "unspawned"
    /\ pc[2] = "unspawned"

\* C35: the target digest is the digest argument itself when that starts with
\* "sha256:" and otherwise the argument behind one "sha256:" prefix;
\* normalizing it again changes nothing; nothing changes it during the run.
C35_DigestNormalized ==
    /\ []((call.fn = "main" /\ call.done /\ call.workers >= 1) =>
              /\ HasPrefix(call.digest, <<"sha256:">>) => m.targetDigest = call.digest
              /\ ~HasPrefix(call.digest, <<"sha256:">>) =>
                    /\ Len(m.targetDigest) = Len(call.digest) + 1
                    /\ Head(m.targetDigest) = "sha256:"
                    /\ Tail(m.targetDigest) = call.digest
              /\ NormalizeDigest(m.targetDigest) = m.targetDigest
              /\ NormalizeDigest(NormalizeDigest(call.digest)) = NormalizeDigest(call.digest))
    /\ [][(call.fn = "main" /\ call.done /\ call.workers >= 1) =>
              m'.targetDigest = m.targetDigest /\ call'.digest = call.digest]_vars

\* C35 witness: the digest was given without the prefix, the run is over and
\* has matched a tag whose manifest the registry served under the prefixed
\* digest.
C35_Witness ==
    /\ call.fn = "main" /\ call.done /\ call.workers >= 1
    /\ call.digest = <<"aaaa">>
    /\ m.targetDigest = DigestA
    /\ m.done
    /\ Len(m.matchingTags) >= 1
    /\ exitStatus = <<0>>

=============================================================================
